---- MODULE Spec2Model ----
(***************************************************************************)
(* objectdb: an embedded document database over three key-value stores     *)
(* (primary documents, secondary path-value index, inverted text index).   *)
(*                                                                         *)
(* Go strings that the code splits or tokenizes (posting lists, dotted     *)
(* paths, primary keys, text field values) are sequences of chunks; a      *)
(* chunk is a run of bytes without any separator in it.  Flat turns such a *)
(* sequence into the string it spells.  Map keys, ids and index keys are   *)
(* never split by the code and are plain strings.                          *)
(***************************************************************************)
EXTENDS Integers, Sequences, FiniteSets, TLC

VARIABLES store, index, textIndex, nops, ret

vars == <<store, index, textIndex, nops, ret>>

(***************************************************************************)
(* Bounds of the model.                                                    *)
(***************************************************************************)
\* documents stored at the same time, over all collections
MaxDocs == 2
\* largest Options.Limit tried
MaxLimit == 2
\* calls in a run
MaxOps == 3
\* records in one call of InsertMany
MaxBatch == 3
\* operands in a group and groups in a query of the matcher's queries
MaxOperands == 2
MaxGroups == 2

(***************************************************************************)
(* Strings.                                                                *)
(***************************************************************************)
RECURSIVE Flat(_)
Flat(s) == IF s = <<>> THEN "" ELSE s[1] \o Flat(Tail(s))

RECURSIVE SplitFrom(_, _, _, _)
SplitFrom(s, sep, i, cur) ==
    IF i > Len(s) THEN <<cur>>
    ELSE IF s[i] = sep THEN <<cur>> \o SplitFrom(s, sep, i + 1, "")
    ELSE SplitFrom(s, sep, i + 1, cur \o s[i])

\* strings.Split(s, sep): the pieces between separators; one empty piece for ""
Split(s, sep) == SplitFrom(s, sep, 1, "")

\* strings.Join(a, sep), as chunks
RECURSIVE Join(_, _)
Join(a, sep) ==
    IF a = <<>> THEN <<>>
    ELSE IF Len(a) = 1 THEN <<a[1]>>
    ELSE <<a[1], sep>> \o Join(Tail(a), sep)

RECURSIVE SeqPerms(_)
SeqPerms(S) ==
    IF S = {} THEN {<<>>}
    ELSE UNION {{<<x>> \o p : p \in SeqPerms(S \ {x})} : x \in S}

RECURSIVE Count(_, _)
Count(a, x) ==
    IF a = <<>> THEN 0
    ELSE (IF a[1] = x THEN 1 ELSE 0) + Count(Tail(a), x)

Range(a) == {a[i] : i \in DOMAIN a}

(***************************************************************************)
(* Values: Go's interface{} after encoding/json, plus the Go types a       *)
(* struct field or a condition value can have.                             *)
(***************************************************************************)
StrV(chunks) == [t |-> "string", v |-> chunks]
NumV(n) == [t |-> "float64", v |-> n]
IntV(n) == [t |-> "int", v |-> n]
BoolV(b) == [t |-> "bool", v |-> b]
MapV(m) == [t |-> "map", v |-> m]
ArrV(a) == [t |-> "array", v |-> a]
\* the nil interface value
NilV == [t |-> "nil", v |-> 0]
\* a nil Document: a typed map with no entries
NilDocument == [t |-> "nilmap", v |-> 0]

IsMap(x) == x.t \in {"map", "nilmap"}

\* v[part] of a Go map: the nil interface when the key is missing
MapGet(x, key) ==
    IF x.t = "map" /\ key \in DOMAIN x.v THEN x.v[key] ELSE NilV

\* every map key of the model, in byte order (fmt prints maps sorted by key)
FieldOrder ==
    <<"_id", "a", "active", "address", "age", "b", "boss", "c", "cuisine", "d", "n",
      "name",
      "postcode", "tags", "x">>

SortedKeys(m) == SelectSeq(FieldOrder, LAMBDA k : k \in DOMAIN m)

RECURSIVE Pow10(_)
Pow10(k) == IF k = 0 THEN 1 ELSE 10 * Pow10(k - 1)

RECURSIVE Digits(_)
Digits(n) == IF n < 10 THEN 1 ELSE 1 + Digits(n \div 10)

RECURSIVE StripZeros(_)
StripZeros(n) == IF n > 0 /\ n % 10 = 0 THEN StripZeros(n \div 10) ELSE n

RECURSIVE ZeroPad(_, _)
ZeroPad(n, w) == IF w = 0 THEN "" ELSE ZeroPad(n \div 10, w - 1) \o ToString(n % 10)

\* strconv.FormatFloat(f, 'g', -1, 64) of a whole number f >= 0: the shortest
\* digits, in exponent form once the decimal exponent reaches 6
FormatFloat(n) ==
    LET e == Digits(n) - 1
        m == StripZeros(n)
        w == Digits(m) - 1
    IN  IF e < 6 THEN ToString(n)
        ELSE ToString(m \div Pow10(w))
             \o (IF w > 0 THEN "." \o ZeroPad(m % Pow10(w), w) ELSE "")
             \o "e+" \o ZeroPad(e, IF e < 100 THEN 2 ELSE Digits(e))

RECURSIVE Sprint(_)
RECURSIVE SprintEntries(_, _)
RECURSIVE SprintElems(_)
\* fmt.Sprintf("%v", x)
Sprint(x) ==
    CASE x.t = "string" -> Flat(x.v)
      [] x.t = "float64" -> FormatFloat(x.v)
      [] x.t = "int" -> ToString(x.v)
      [] x.t = "bool" -> (IF x.v THEN "true" ELSE "false")
      [] x.t = "nil" -> "<nil>"
      [] x.t = "nilmap" -> "map[]"
      [] x.t = "map" -> "map[" \o SprintEntries(x.v, SortedKeys(x.v)) \o "]"
      [] x.t = "array" -> "[" \o SprintElems(x.v) \o "]"
SprintEntries(m, keys) ==
    IF keys = <<>> THEN ""
    ELSE keys[1] \o ":" \o Sprint(m[keys[1]])
         \o (IF Len(keys) > 1 THEN " " ELSE "") \o SprintEntries(m, Tail(keys))
SprintElems(a) ==
    IF a = <<>> THEN ""
    ELSE Sprint(a[1]) \o (IF Len(a) > 1 THEN " " ELSE "") \o SprintElems(Tail(a))

\* the numbers whose decimal spelling the model can parse
Parseable == (0 .. 40) \cup {10000}

\* strconv.ParseFloat(s, 64): [ok, f]
ParseFloat(s) ==
    IF \E n \in Parseable : ToString(n) = s
    THEN [ok |-> TRUE, f |-> CHOOSE n \in Parseable : ToString(n) = s]
    ELSE [ok |-> FALSE, f |-> 0]

(***************************************************************************)
(* json.Marshal of the caller's struct followed by json.Unmarshal into a   *)
(* map: every number comes back as float64, nested structs as maps.        *)
(***************************************************************************)
RECURSIVE Unmarshal(_)
Unmarshal(x) ==
    CASE x.t = "int" -> NumV(x.v)
      [] x.t = "map" -> MapV([k \in DOMAIN x.v |-> Unmarshal(x.v[k])])
      [] x.t = "array" -> ArrV([i \in DOMAIN x.v |-> Unmarshal(x.v[i])])
      [] OTHER -> x

(***************************************************************************)
(* The key-value engine (pebble): Get of a missing key gives no bytes.     *)
(***************************************************************************)
\* a store without keys
Empty == [k \in {} |-> <<>>]

KVGet(kv, key) == IF key \in DOMAIN kv THEN kv[key] ELSE <<>>

KVSet(kv, key, value) ==
    [k \in DOMAIN kv \cup {key} |-> IF k = key THEN value ELSE kv[k]]

KVDelete(kv, key) == [k \in DOMAIN kv \ {key} |-> kv[k]]

\* len(idsString) == 0
NoBytes(s) == Flat(s) = ""

getDocumentKey(collectionName, id) == <<collectionName, ":", id>>

getIndexKey(collectionName, pathValue) == collectionName \o ":" \o pathValue

\* an inverted key made of the token alone
ftsKeyOfToken(collectionName, token) == token

ftsGetIndexKey(collectionName, token) == collectionName \o ":" \o token

buildPathValue(path, value) == path \o "=" \o Sprint(value)

(***************************************************************************)
(* Path-value pairs.  Go ranges over a map in an unspecified order, so     *)
(* getPathValues is the set of slices a call can return.  The call also    *)
(* deletes "_id" from the map it is given (WithoutId).                     *)
(***************************************************************************)
RECURSIVE ConcatChoices(_)
\* the concatenations that take one slice from each set, in order
ConcatChoices(sets) ==
    IF sets = <<>> THEN {<<>>}
    ELSE {h \o t : h \in sets[1], t \in ConcatChoices(Tail(sets))}

\* a getPathValues that leaves _id in the map
KeepId(document) == document

\* delete(document, "_id")
WithoutId(document) ==
    IF document.t = "map"
    THEN MapV([k \in DOMAIN document.v \ {"_id"} |-> document.v[k]])
    ELSE document

RECURSIVE getPathValues(_, _)
getPathValues(document, prefix) ==
    LET m == WithoutId(document).v
        \* what the loop appends for one key
        pairsOf == [key \in DOMAIN m |->
            CASE m[key].t = "map" -> getPathValues(m[key], key)
              [] m[key].t = "array" -> {<<>>}
              [] OTHER ->
                  {<<buildPathValue(
                       IF prefix # "" THEN prefix \o "." \o key ELSE key,
                       m[key])>>}]
    IN  UNION {ConcatChoices([i \in DOMAIN order |-> pairsOf[order[i]]]) :
               order \in SeqPerms(DOMAIN m)}

(***************************************************************************)
(* Secondary index maintenance.                                            *)
(***************************************************************************)
\* indexDocument's round without the search for the id in the list
AppendAlways(idsString, id) ==
    IF NoBytes(idsString) THEN <<id>> ELSE idsString \o <<",", id>>

\* one round of the loop of indexDocument: the bytes written back under indexKey
AppendId(idsString, id) ==
    IF NoBytes(idsString) THEN <<id>>
    ELSE IF \E i \in DOMAIN Split(idsString, ",") : Split(idsString, ",")[i] = id
         THEN idsString
         ELSE idsString \o <<",", id>>

RECURSIVE indexDocument(_, _, _, _)
\* the index store after indexDocument has walked the slice pv
indexDocument(idx, collectionName, id, pv) ==
    IF pv = <<>> THEN idx
    ELSE LET indexKey == getIndexKey(collectionName, pv[1])
         IN  indexDocument(KVSet(idx, indexKey, AppendId(KVGet(idx, indexKey), id)),
                           collectionName, id, Tail(pv))

\* a removal that empties the posting list
RemoveEvery(idsString, id) == <<>>

\* the ids of a posting list other than id, in their order
RemoveId(idsString, id) == SelectSeq(Split(idsString, ","), LAMBDA e : e # id)

RECURSIVE deleteDocumentFromIndex(_, _, _, _)
\* the index store after deleteDocumentFromIndex has walked the slice pv; the
\* function returns at the first pair whose posting list has no bytes
deleteDocumentFromIndex(idx, collectionName, id, pv) ==
    IF pv = <<>> THEN idx
    ELSE LET indexKey == getIndexKey(collectionName, pv[1])
             idsString == KVGet(idx, indexKey)
             newIds == RemoveId(idsString, id)
         IN  IF NoBytes(idsString) THEN idx
             ELSE deleteDocumentFromIndex(
                      IF newIds = <<>> THEN KVDelete(idx, indexKey)
                      ELSE KVSet(idx, indexKey, Join(newIds, ",")),
                      collectionName, id, Tail(pv))

(***************************************************************************)
(* Text analysis.                                                          *)
(***************************************************************************)
\* chunks that are neither letters nor numbers
Separators == {" ", "'", "<", ">"}

RECURSIVE FieldsFrom(_, _, _)
FieldsFrom(text, i, cur) ==
    IF i > Len(text) THEN (IF cur = "" THEN <<>> ELSE <<cur>>)
    ELSE IF text[i] \in Separators
         THEN (IF cur = "" THEN <<>> ELSE <<cur>>) \o FieldsFrom(text, i + 1, "")
         ELSE FieldsFrom(text, i + 1, cur \o text[i])

\* strings.FieldsFunc: the maximal runs of letters and numbers
tokenize(text) == FieldsFrom(text, 1, "")

\* strings.ToLower on the words of the model
ToLower(token) ==
    CASE token = "Pizza" -> "pizza"
      [] token = "Pizzas" -> "pizzas"
      [] token = "The" -> "the"
      [] token = "Jane" -> "jane"
      [] OTHER -> token

lowercaseFilter(tokens) == [i \in DOMAIN tokens |-> ToLower(tokens[i])]

stopwords == {"a", "and", "be", "have", "i", "in", "of", "that", "the", "to"}

stopwordFilter(tokens) == SelectSeq(tokens, LAMBDA t : t \notin stopwords)

\* snowball english.Stem on the words of the model
Stem(token) ==
    CASE token = "pizzas" -> "pizza"
      [] token = "italy" -> "itali"
      [] OTHER -> token

stemmerFilter(tokens) == [i \in DOMAIN tokens |-> Stem(tokens[i])]

analyze(text) == stemmerFilter(stopwordFilter(lowercaseFilter(tokenize(text))))

(***************************************************************************)
(* Inverted index maintenance (package fts).  A result is [kv, panic]:     *)
(* the text index store as left behind, and whether the call panicked.     *)
(***************************************************************************)
RECURSIVE AddTokens(_, _, _, _)
\* the loop over tokens of AddToIndex
AddTokens(tidx, collectionName, id, tokens) ==
    IF tokens = <<>> THEN tidx
    ELSE LET indexKey == ftsGetIndexKey(collectionName, tokens[1])
         IN  AddTokens(KVSet(tidx, indexKey, AppendId(KVGet(tidx, indexKey), id)),
                       collectionName, id, Tail(tokens))

\* a tag loop that looks at the first value of the tag only
AddTagsFirst(tidx, collectionName, id, fieldValue, tagValues) ==
    IF tagValues[1] = "textIndex" /\ fieldValue.t = "string"
    THEN [kv |-> AddTokens(tidx, collectionName, id, analyze(fieldValue.v)),
          panic |-> FALSE]
    ELSE [kv |-> tidx, panic |-> FALSE]

\* a tag loop that indexes every string field, whatever its tag
AddUntagged(tidx, collectionName, id, fieldValue, tagValues) ==
    IF fieldValue.t = "string"
    THEN [kv |-> AddTokens(tidx, collectionName, id, analyze(fieldValue.v)),
          panic |-> FALSE]
    ELSE [kv |-> tidx, panic |-> FALSE]

RECURSIVE AddTags(_, _, _, _, _)
\* the loop over the values of a field's objectdb tag
AddTags(tidx, collectionName, id, fieldValue, tagValues) ==
    IF tagValues = <<>> THEN [kv |-> tidx, panic |-> FALSE]
    ELSE IF tagValues[1] = "textIndex"
         THEN IF fieldValue.t # "string" THEN [kv |-> tidx, panic |-> TRUE]
              ELSE AddTags(AddTokens(tidx, collectionName, id, analyze(fieldValue.v)),
                           collectionName, id, fieldValue, Tail(tagValues))
         ELSE AddTags(tidx, collectionName, id, fieldValue, Tail(tagValues))

RECURSIVE AddFields(_, _, _, _, _)
AddFields(tidx, collectionName, id, document, i) ==
    IF i > Len(document.fields) THEN [kv |-> tidx, panic |-> FALSE]
    ELSE LET name == document.fields[i]
             r == AddTags(tidx, collectionName, id, document.val[name],
                          Split(document.tag[name], ";"))
         IN  IF r.panic THEN r
             ELSE AddFields(r.kv, collectionName, id, document, i + 1)

\* document is the caller's struct: its fields in order, their values and tags
AddToIndex(tidx, collectionName, id, document) ==
    AddFields(tidx, collectionName, id, document, 1)

\* a token loop that leaves every posting list as it was
DeleteTokensNowhere(tidx, collectionName, id, tokens) == tidx

RECURSIVE DeleteTokens(_, _, _, _)
\* the loop over tokens of DeleteFromIndex
DeleteTokens(tidx, collectionName, id, tokens) ==
    IF tokens = <<>> THEN tidx
    ELSE LET indexKey == ftsGetIndexKey(collectionName, tokens[1])
             idsString == KVGet(tidx, indexKey)
             newIds == RemoveId(idsString, id)
         IN  DeleteTokens(
                 IF NoBytes(idsString) THEN tidx
                 ELSE IF newIds = <<>> THEN KVDelete(tidx, indexKey)
                 ELSE KVSet(tidx, indexKey, Join(newIds, ",")),
                 collectionName, id, Tail(tokens))

RECURSIVE DeleteFromIndex(_, _, _, _, _)
\* document is the stored map; order is the order in which Go ranges over it.
\* reflect.TypeOf of a nil field value is nil, and Kind() on it panics.
DeleteFromIndex(tidx, collectionName, id, document, order) ==
    IF order = <<>> THEN [kv |-> tidx, panic |-> FALSE]
    ELSE LET fieldValue == document.v[order[1]]
         IN  IF fieldValue.t = "nil" THEN [kv |-> tidx, panic |-> TRUE]
             ELSE IF fieldValue.t # "string"
                  THEN DeleteFromIndex(tidx, collectionName, id, document, Tail(order))
                  ELSE DeleteFromIndex(
                           DeleteTokens(tidx, collectionName, id, analyze(fieldValue.v)),
                           collectionName, id, document, Tail(order))

RECURSIVE intersectionPrepending(_, _)
\* an intersection that puts each common item in front of the result
intersectionPrepending(a, b) ==
    IF b = <<>> THEN <<>>
    ELSE intersectionPrepending(a, Tail(b))
         \o (IF b[1] \in Range(a) THEN <<b[1]>> ELSE <<>>)

\* intersection(a, b): the items of b that are in a, in the order of b
intersection(a, b) == SelectSeq(b, LAMBDA item : item \in Range(a))

RECURSIVE SearchTokensStrict(_, _, _, _)
\* a loop that takes a token without posting list for the empty list: none is
\* the mark of "no list seen yet"
SearchTokensStrict(tidx, collectionName, tokens, matchedIds) ==
    IF tokens = <<>> THEN matchedIds
    ELSE LET idsString == KVGet(tidx, ftsGetIndexKey(collectionName, tokens[1]))
         IN  IF NoBytes(idsString) THEN <<>>
             ELSE SearchTokensStrict(tidx, collectionName, Tail(tokens),
                      IF Len(matchedIds) = 0 THEN Split(idsString, ",")
                      ELSE intersection(matchedIds, Split(idsString, ",")))

RECURSIVE SearchTokens(_, _, _, _)
\* the loop over tokens of fts.Search; matchedIds is what it has so far
SearchTokens(tidx, collectionName, tokens, matchedIds) ==
    IF tokens = <<>> THEN matchedIds
    ELSE LET idsString == KVGet(tidx, ftsGetIndexKey(collectionName, tokens[1]))
             ids == Split(idsString, ",")
         IN  SearchTokens(tidx, collectionName, Tail(tokens),
                          IF NoBytes(idsString) THEN matchedIds
                          ELSE IF Len(matchedIds) = 0 THEN ids
                          ELSE intersection(matchedIds, ids))

\* fts.Search: the matched ids
ftsSearch(tidx, collectionName, text) ==
    SearchTokens(tidx, collectionName, analyze(text), <<>>)

(***************************************************************************)
(* The inputs of the model.                                                *)
(***************************************************************************)
\* collection names and generated ids, each in byte order
Collections == <<"c1", "c2">>
Ids == <<"d1", "d2">>

NoTag == <<>>

\* an employee: strings, one of them text-indexed, and an array
Emp ==
    [fields |-> <<"name", "age", "tags">>,
     val |-> [name |-> StrV(<<"Jane">>), age |-> StrV(<<"30">>),
              tags |-> ArrV(<<StrV(<<"t">>)>>)],
     tag |-> [name |-> <<"textIndex">>, age |-> NoTag, tags |-> NoTag]]

\* a restaurant: two text-indexed fields and a nested struct
Rest ==
    [fields |-> <<"name", "cuisine", "address">>,
     val |-> [name |-> StrV(<<"Pizza", " ", "the", " ", "Pizzas">>),
              cuisine |-> StrV(<<"pizza", "'", "italy">>),
              address |-> MapV([postcode |-> StrV(<<"10000">>)])],
     tag |-> [name |-> <<"textIndex">>,
              cuisine |-> <<"x", ";", "textIndex">>,
              address |-> NoTag]]

\* structs nested three deep, twice with the same inner field names, and an int
Deep ==
    [fields |-> <<"a", "d", "n">>,
     val |-> [a |-> MapV([b |-> MapV([c |-> StrV(<<"x">>)])]),
              d |-> MapV([b |-> MapV([c |-> StrV(<<"x">>)])]),
              n |-> IntV(30)],
     tag |-> [a |-> NoTag, d |-> NoTag, n |-> NoTag]]

\* a struct with a bool and a nil pointer
Flags ==
    [fields |-> <<"active", "boss">>,
     val |-> [active |-> BoolV(TRUE), boss |-> NilV],
     tag |-> [active |-> NoTag, boss |-> NoTag]]

\* a struct whose nested struct holds a nil pointer
Vacant ==
    [fields |-> <<"address">>,
     val |-> [address |-> MapV([boss |-> NilV])],
     tag |-> [address |-> NoTag]]

\* a struct whose string field spells what fmt prints for nil
Unset ==
    [fields |-> <<"boss">>,
     val |-> [boss |-> StrV(<<"<", "nil", ">">>)],
     tag |-> [boss |-> NoTag]]

\* a struct with a text-indexed name and a nil pointer
Staff ==
    [fields |-> <<"name", "boss">>,
     val |-> [name |-> StrV(<<"Jane">>), boss |-> NilV],
     tag |-> [name |-> <<"textIndex">>, boss |-> NoTag]]

Records == {Emp, Rest, Deep}

(***************************************************************************)
(* Queries: Condition, Query, and the comparison operators.                *)
(***************************************************************************)
EQ == "="
NE == "!="
GT == ">"
GTE == ">="
LT == "<"
LTE == "<="

Condition(path, operator, value) ==
    [Path |-> path, Operator |-> operator, Value |-> value]

Group(operator, operands) == [Operator |-> operator, Operands |-> operands]

RECURSIVE Walk(_, _)
Walk(docSegment, parts) ==
    IF parts = <<>> THEN [value |-> docSegment, ok |-> TRUE]
    ELSE IF IsMap(docSegment) THEN Walk(MapGet(docSegment, parts[1]), Tail(parts))
    ELSE [value |-> NilV, ok |-> FALSE]

\* [value, ok]
getValueFromPath(document, path) == Walk(document, Split(path, "."))

\* a matcher whose type switch has no case for strings
matchConditionNumbersOnly(document, condition) ==
    LET got == getValueFromPath(document, condition.Path)
        value == got.value
        right == ParseFloat(Sprint(condition.Value))
        left == CASE value.t \in {"float64", "int"} -> [ok |-> TRUE, f |-> value.v]
                  [] OTHER -> [ok |-> FALSE, f |-> 0]
    IN  IF ~got.ok THEN FALSE
        ELSE IF condition.Operator = EQ THEN Sprint(value) = Sprint(condition.Value)
        ELSE IF condition.Operator = NE THEN Sprint(value) # Sprint(condition.Value)
        ELSE IF ~right.ok THEN FALSE
        ELSE IF ~left.ok THEN FALSE
        ELSE CASE condition.Operator = GT -> left.f > right.f
               [] condition.Operator = GTE -> left.f >= right.f
               [] condition.Operator = LT -> left.f < right.f
               [] condition.Operator = LTE -> left.f <= right.f
               [] OTHER -> FALSE

matchCondition(document, condition) ==
    LET got == getValueFromPath(document, condition.Path)
        value == got.value
        right == ParseFloat(Sprint(condition.Value))
        left == CASE value.t \in {"float64", "int"} -> [ok |-> TRUE, f |-> value.v]
                  [] value.t = "string" -> ParseFloat(Flat(value.v))
                  [] OTHER -> [ok |-> FALSE, f |-> 0]
    IN  IF ~got.ok THEN FALSE
        ELSE IF condition.Operator = EQ THEN Sprint(value) = Sprint(condition.Value)
        ELSE IF condition.Operator = NE THEN Sprint(value) # Sprint(condition.Value)
        ELSE IF ~right.ok THEN FALSE
        ELSE IF ~left.ok THEN FALSE
        ELSE CASE condition.Operator = GT -> left.f > right.f
               [] condition.Operator = GTE -> left.f >= right.f
               [] condition.Operator = LT -> left.f < right.f
               [] condition.Operator = LTE -> left.f <= right.f
               [] OTHER -> FALSE

\* a matcher that leaves an OR group after its first operand
matchQueryFirstOperand(document, query) ==
    \A g \in DOMAIN query :
        IF query[g].Operator = "OR"
        THEN /\ query[g].Operands # <<>>
             /\ matchCondition(document, query[g].Operands[1])
        ELSE \A o \in DOMAIN query[g].Operands :
                 matchCondition(document, query[g].Operands[o])

matchQuery(document, query) ==
    \A g \in DOMAIN query :
        IF query[g].Operator = "OR"
        THEN \E o \in DOMAIN query[g].Operands :
                 matchCondition(document, query[g].Operands[o])
        ELSE \A o \in DOMAIN query[g].Operands :
                 matchCondition(document, query[g].Operands[o])

(***************************************************************************)
(* FindOneById and FindMany.                                               *)
(***************************************************************************)
\* a lookup that reads the id without its collection prefix
FindOneByBareId(st, collectionName, id) ==
    IF \E key \in DOMAIN st : \E c \in {"c1", "c2"} : key = getDocumentKey(c, id)
    THEN [doc |-> st[CHOOSE key \in DOMAIN st :
                         \E c \in {"c1", "c2"} : key = getDocumentKey(c, id)],
          err |-> "nil"]
    ELSE [doc |-> NilDocument, err |-> "ErrDocumentNotExists"]

\* [doc, err]
FindOneById(st, collectionName, id) ==
    LET key == getDocumentKey(collectionName, id)
    IN  IF key \in DOMAIN st
        THEN [doc |-> st[key], err |-> "nil"]
        ELSE [doc |-> NilDocument, err |-> "ErrDocumentNotExists"]

\* a classification that looks for an = condition only
fallbackWithoutOrCheck(query) ==
    \/ Len(query) = 0
    \/ \E g \in DOMAIN query :
           ~\E o \in DOMAIN query[g].Operands : query[g].Operands[o].Operator = EQ

\* the classification loop of FindMany
fallbackToFullScan(query) ==
    \/ Len(query) = 0
    \/ \E g \in DOMAIN query :
           \/ /\ query[g].Operator = "OR"
              /\ \E o \in DOMAIN query[g].Operands : query[g].Operands[o].Operator # EQ
           \/ ~\E o \in DOMAIN query[g].Operands : query[g].Operands[o].Operator = EQ

\* ids: the posting list read for an = condition, split at the commas
PostingIds(idx, collectionName, operand) ==
    Split(KVGet(idx, getIndexKey(collectionName,
                                 buildPathValue(Flat(operand.Path),
                                                StrV(<<Sprint(operand.Value)>>)))),
          ",")

RECURSIVE SumOver(_, _)
SumOver(f, n) == IF n = 0 THEN 0 ELSE f[n] + SumOver(f, n - 1)

\* what one top-level group adds to nonRangeConditionCount
GroupRequired(group) ==
    IF group.Operator = "OR" THEN 1
    ELSE Cardinality({o \in DOMAIN group.Operands : group.Operands[o].Operator = EQ})

\* what one top-level group adds to idsConditionCount[id]
GroupCount(idx, collectionName, group, id) ==
    IF group.Operator = "OR"
    THEN IF \E o \in DOMAIN group.Operands :
                id \in Range(PostingIds(idx, collectionName, group.Operands[o]))
         THEN 1 ELSE 0
    ELSE SumOver([o \in DOMAIN group.Operands |->
                      IF group.Operands[o].Operator = EQ
                      THEN Count(PostingIds(idx, collectionName, group.Operands[o]), id)
                      ELSE 0],
                 Len(group.Operands))

nonRangeConditionCount(query) ==
    SumOver([g \in DOMAIN query |-> GroupRequired(query[g])], Len(query))

\* the keys of idsConditionCount: every id read from a posting list
CountedIds(idx, collectionName, query) ==
    UNION {UNION {IF query[g].Operator = "OR" \/ query[g].Operands[o].Operator = EQ
                  THEN Range(PostingIds(idx, collectionName, query[g].Operands[o]))
                  ELSE {} : o \in DOMAIN query[g].Operands} : g \in DOMAIN query}

idsConditionCount(idx, collectionName, query, id) ==
    SumOver([g \in DOMAIN query |-> GroupCount(idx, collectionName, query[g], id)],
            Len(query))

\* the ids of allMatchedIdsFromIndex
allMatchedIdsFromIndex(idx, collectionName, query) ==
    {id \in CountedIds(idx, collectionName, query) :
         idsConditionCount(idx, collectionName, query, id) = nonRangeConditionCount(query)}

\* the test that ends the loop, one document late
LimitReachedLate(documents, limit) == limit > 0 /\ Len(documents) > limit

\* append, and the test that ends the loop: Limit = 0 means no limit
LimitReached(documents, limit) == limit > 0 /\ Len(documents) >= limit

RECURSIVE VerifyCandidates(_, _, _, _, _, _)
\* the loop over allMatchedIdsFromIndex, in the order ids
VerifyCandidates(st, collectionName, query, limit, ids, documents) ==
    IF ids = <<>> THEN documents
    ELSE LET document == FindOneById(st, collectionName, ids[1]).doc
         IN  IF matchQuery(document, query)
             THEN IF LimitReached(Append(documents, document), limit)
                  THEN Append(documents, document)
                  ELSE VerifyCandidates(st, collectionName, query, limit, Tail(ids),
                                        Append(documents, document))
             ELSE VerifyCandidates(st, collectionName, query, limit, Tail(ids),
                                   documents)

\* every primary key the model can write, in the byte order of the iterator
KeyOrder ==
    [i \in 1..(Len(Collections) * Len(Ids)) |->
        getDocumentKey(Collections[((i - 1) \div Len(Ids)) + 1],
                       Ids[((i - 1) % Len(Ids)) + 1])]

\* iter.First() .. iter.Next(): the keys of the store in order
IterKeys(st) == SelectSeq(KeyOrder, LAMBDA k : k \in DOMAIN st)

RECURSIVE ScanEveryKey(_, _, _, _, _, _)
\* a scan that does not look at the collection of the key
ScanEveryKey(st, collectionName, query, limit, keys, documents) ==
    IF keys = <<>> THEN documents
    ELSE IF matchQuery(st[keys[1]], query)
         THEN IF LimitReached(Append(documents, st[keys[1]]), limit)
              THEN Append(documents, st[keys[1]])
              ELSE ScanEveryKey(st, collectionName, query, limit, Tail(keys),
                                Append(documents, st[keys[1]]))
         ELSE ScanEveryKey(st, collectionName, query, limit, Tail(keys), documents)

RECURSIVE ScanCollection(_, _, _, _, _, _)
\* the loop of the full scan over the keys
ScanCollection(st, collectionName, query, limit, keys, documents) ==
    IF keys = <<>> THEN documents
    ELSE IF Split(keys[1], ":")[1] # collectionName
         THEN ScanCollection(st, collectionName, query, limit, Tail(keys), documents)
         ELSE IF matchQuery(st[keys[1]], query)
              THEN IF LimitReached(Append(documents, st[keys[1]]), limit)
                   THEN Append(documents, st[keys[1]])
                   ELSE ScanCollection(st, collectionName, query, limit, Tail(keys),
                                       Append(documents, st[keys[1]]))
              ELSE ScanCollection(st, collectionName, query, limit, Tail(keys),
                                  documents)

\* the slices of documents a call of FindMany can return: Go ranges over
\* idsConditionCount in an unspecified order
FindManyDocs(st, idx, collectionName, query, limit) ==
    IF ~fallbackToFullScan(query)
    THEN {VerifyCandidates(st, collectionName, query, limit, ids, <<>>) :
              ids \in SeqPerms(allMatchedIdsFromIndex(idx, collectionName, query))}
    ELSE {ScanCollection(st, collectionName, query, limit, IterKeys(st), <<>>)}

(***************************************************************************)
(* The operations, as actions.  ret is the last call and what it returned  *)
(* (id, docs, err).  For InsertOne and DeleteOneById, whose effect on the  *)
(* stores depends on them, ret also keeps the collection, the id and the   *)
(* struct of the call.  A read leaves the stores as they are: what it can  *)
(* return is a function of the stores and its arguments (FindOneById,      *)
(* FindManyDocs, FindOneResults).  nops counts the calls.                  *)
(***************************************************************************)
Result(op, collectionName, id, arg, docs, err) ==
    [op |-> op, coll |-> collectionName, id |-> id, arg |-> arg, docs |-> docs,
     err |-> err]

\* the map InsertOne builds from the caller's struct, with its _id
DocumentMap(document, id) ==
    LET m == Unmarshal(MapV(document.val)).v
    IN  MapV([k \in DOMAIN m \cup {"_id"} |-> IF k = "_id" THEN StrV(<<id>>) ELSE m[k]])

\* the bytes of the map as indexDocument leaves it, its _id deleted
StoredAfterIndexing(documentMap) == WithoutId(documentMap)

\* bs: the bytes written to the store, marshalled before the document is indexed
StoredBytes(documentMap) == documentMap

\* an insert that writes without looking for a document under the same key
InsertOverwrite(collectionName, document, id) ==
    LET documentMap == DocumentMap(document, id)
        key == getDocumentKey(collectionName, id)
        added == AddToIndex(textIndex, collectionName, id, document)
    IN  /\ nops < MaxOps
        /\ Cardinality(DOMAIN store) < MaxDocs \/ key \in DOMAIN store
        /\ nops' = nops + 1
        /\ store' = KVSet(store, key, StoredBytes(documentMap))
        /\ index' \in {indexDocument(index, collectionName, id, pv) :
                           pv \in getPathValues(documentMap, "")}
        /\ textIndex' = added.kv
        /\ ret' = Result("InsertOne", collectionName,
                         IF added.panic THEN "" ELSE id, document, <<>>,
                         IF added.panic THEN "panic" ELSE "nil")

InsertOne(collectionName, document, id) ==
    LET documentMap == DocumentMap(document, id)
        bs == StoredBytes(documentMap)
        key == getDocumentKey(collectionName, id)
        added == AddToIndex(textIndex, collectionName, id, document)
    IN  /\ nops < MaxOps
        /\ Cardinality(DOMAIN store) < MaxDocs \/ key \in DOMAIN store
        /\ nops' = nops + 1
        /\ IF key \in DOMAIN store
           THEN /\ ret' = Result("InsertOne", collectionName, "", document, <<>>,
                                 "ErrDuplicateKey")
                /\ UNCHANGED <<store, index, textIndex>>
           ELSE /\ store' = KVSet(store, key, bs)
                /\ index' \in {indexDocument(index, collectionName, id, pv) :
                                   pv \in getPathValues(documentMap, "")}
                /\ textIndex' = added.kv
                /\ ret' = Result("InsertOne", collectionName,
                                 IF added.panic THEN "" ELSE id, document, <<>>,
                                 IF added.panic THEN "panic" ELSE "nil")

\* what one call of InsertOne makes of the three stores db, with the id and the
\* error it returns
InsertOneOutcomes(db, collectionName, document, id) ==
    LET documentMap == DocumentMap(document, id)
        bs == StoredBytes(documentMap)
        key == getDocumentKey(collectionName, id)
        added == AddToIndex(db.textIndex, collectionName, id, document)
    IN  IF key \in DOMAIN db.store
        THEN {[store |-> db.store, index |-> db.index, textIndex |-> db.textIndex,
               id |-> "", err |-> "ErrDuplicateKey"]}
        ELSE {[store |-> KVSet(db.store, key, bs),
               index |-> indexDocument(db.index, collectionName, id, pv),
               textIndex |-> added.kv,
               id |-> IF added.panic THEN "" ELSE id,
               err |-> IF added.panic THEN "panic" ELSE "nil"] :
                  pv \in getPathValues(documentMap, "")}

RECURSIVE InsertManySkipping(_, _, _, _, _, _)
\* a loop that skips a record whose InsertOne failed and goes on with the next
InsertManySkipping(db, collectionName, documents, uuids, i, ids) ==
    IF i > Len(documents)
    THEN {[store |-> db.store, index |-> db.index, textIndex |-> db.textIndex,
           ids |-> ids, err |-> "nil"]}
    ELSE UNION {InsertManySkipping(
                    [store |-> o.store, index |-> o.index, textIndex |-> o.textIndex],
                    collectionName, documents, uuids, i + 1,
                    IF o.err # "nil" THEN ids ELSE Append(ids, o.id)) :
                    o \in InsertOneOutcomes(db, collectionName, documents[i], uuids[i])}

RECURSIVE InsertManyFrom(_, _, _, _, _, _)
\* the loop of InsertMany from the i-th document on: ids holds the ids of the
\* documents before it; the first error ends the loop and nil ids are returned
InsertManyFrom(db, collectionName, documents, uuids, i, ids) ==
    IF i > Len(documents)
    THEN {[store |-> db.store, index |-> db.index, textIndex |-> db.textIndex,
           ids |-> ids, err |-> "nil"]}
    ELSE UNION {IF o.err # "nil"
                THEN {[store |-> o.store, index |-> o.index,
                       textIndex |-> o.textIndex, ids |-> <<>>, err |-> o.err]}
                ELSE InsertManyFrom(
                         [store |-> o.store, index |-> o.index,
                          textIndex |-> o.textIndex],
                         collectionName, documents, uuids, i + 1, Append(ids, o.id)) :
                    o \in InsertOneOutcomes(db, collectionName, documents[i], uuids[i])}

\* uuids[i] is the id uuid.New gives to the i-th call of InsertOne; ret.arg
\* keeps the slice with the ids drawn, ret.docs holds the ids returned
InsertMany(collectionName, documents, uuids) ==
    /\ nops < MaxOps
    /\ Cardinality(DOMAIN store \cup {getDocumentKey(collectionName, uuids[i]) :
                                          i \in DOMAIN uuids}) <= MaxDocs
    /\ nops' = nops + 1
    /\ \E o \in InsertManyFrom([store |-> store, index |-> index,
                                 textIndex |-> textIndex],
                                collectionName, documents, uuids, 1, <<>>) :
           /\ store' = o.store
           /\ index' = o.index
           /\ textIndex' = o.textIndex
           /\ ret' = Result("InsertMany", collectionName, "",
                            [documents |-> documents, uuids |-> uuids], o.ids, o.err)

\* a delete that goes on with the nil document when FindOneById finds nothing
DeleteUnchecked(collectionName, id) ==
    LET key == getDocumentKey(collectionName, id)
        document == FindOneById(store, collectionName, id).doc
    IN  /\ nops < MaxOps
        /\ nops' = nops + 1
        /\ IF key \notin DOMAIN store
           THEN /\ ret' = Result("DeleteOneById", collectionName, id, <<>>, <<>>, "nil")
                /\ UNCHANGED <<store, index, textIndex>>
           ELSE /\ index' \in {deleteDocumentFromIndex(index, collectionName, id, pv) :
                                   pv \in getPathValues(document, "")}
                /\ \E removed \in {DeleteFromIndex(textIndex, collectionName, id,
                                                   WithoutId(document), order) :
                                       order \in SeqPerms(DOMAIN WithoutId(document).v)} :
                       /\ textIndex' = removed.kv
                       /\ store' = IF removed.panic THEN store ELSE KVDelete(store, key)
                       /\ ret' = Result("DeleteOneById", collectionName, id, <<>>,
                                        <<>>, IF removed.panic THEN "panic" ELSE "nil")

DeleteOneById(collectionName, id) ==
    LET key == getDocumentKey(collectionName, id)
        found == FindOneById(store, collectionName, id)
        document == found.doc
    IN  /\ nops < MaxOps
        /\ nops' = nops + 1
        /\ IF found.err # "nil"
           THEN /\ ret' = Result("DeleteOneById", collectionName, id, <<>>, <<>>,
                                 found.err)
                /\ UNCHANGED <<store, index, textIndex>>
           ELSE /\ index' \in {deleteDocumentFromIndex(index, collectionName, id, pv) :
                                   pv \in getPathValues(document, "")}
                /\ \E removed \in {DeleteFromIndex(textIndex, collectionName, id,
                                                   WithoutId(document), order) :
                                       order \in SeqPerms(DOMAIN WithoutId(document).v)} :
                       /\ textIndex' = removed.kv
                       /\ store' = IF removed.panic THEN store ELSE KVDelete(store, key)
                       /\ ret' = Result("DeleteOneById", collectionName, id, <<>>,
                                        <<>>, IF removed.panic THEN "panic" ELSE "nil")

\* what one call of DeleteOneById makes of the three stores db, with the error
\* it returns
DeleteOneByIdOutcomes(db, collectionName, id) ==
    LET key == getDocumentKey(collectionName, id)
        found == FindOneById(db.store, collectionName, id)
        document == found.doc
    IN  IF found.err # "nil"
        THEN {[store |-> db.store, index |-> db.index, textIndex |-> db.textIndex,
               err |-> found.err]}
        ELSE {[store |-> IF removed.panic THEN db.store ELSE KVDelete(db.store, key),
               index |-> deleteDocumentFromIndex(db.index, collectionName, id, pv),
               textIndex |-> removed.kv,
               err |-> IF removed.panic THEN "panic" ELSE "nil"] :
                  pv \in getPathValues(document, ""),
                  removed \in {DeleteFromIndex(db.textIndex, collectionName, id,
                                               WithoutId(document), order) :
                                   order \in SeqPerms(DOMAIN WithoutId(document).v)}}

FindById(collectionName, id) ==
    /\ ret' = Result("FindOneById", "", "", <<>>,
                     <<FindOneById(store, collectionName, id).doc>>,
                     FindOneById(store, collectionName, id).err)
    /\ nops < MaxOps
    /\ nops' = nops + 1
    /\ UNCHANGED <<store, index, textIndex>>

FindMany(collectionName, query, limit) ==
    /\ \E documents \in FindManyDocs(store, index, collectionName, query, limit) :
           ret' = Result("FindMany", "", "", <<>>, documents, "nil")
    /\ nops < MaxOps
    /\ nops' = nops + 1
    /\ UNCHANGED <<store, index, textIndex>>

\* the [doc, err] a call of FindOne can return: FindMany with Limit 1, then
\* ErrNoDocuments when it gave nothing and its first document otherwise
FindOneResults(st, idx, collectionName, query) ==
    {IF Len(documents) = 0
     THEN [doc |-> NilDocument, err |-> "ErrNoDocuments"]
     ELSE [doc |-> documents[1], err |-> "nil"] :
         documents \in FindManyDocs(st, idx, collectionName, query, 1)}

FindOne(collectionName, query) ==
    /\ \E found \in FindOneResults(store, index, collectionName, query) :
           ret' = Result("FindOne", "", "", <<>>, <<found.doc>>, found.err)
    /\ nops < MaxOps
    /\ nops' = nops + 1
    /\ UNCHANGED <<store, index, textIndex>>

RECURSIVE LoadAll(_, _, _, _)
\* the loop of Search over the matched ids: [docs, err]
LoadAll(st, collectionName, documentIds, documents) ==
    IF documentIds = <<>> THEN [docs |-> documents, err |-> "nil"]
    ELSE LET found == FindOneById(st, collectionName, documentIds[1])
         IN  IF found.err # "nil" THEN [docs |-> <<>>, err |-> found.err]
             ELSE LoadAll(st, collectionName, Tail(documentIds),
                          Append(documents, found.doc))

\* what a call of Search returns: [docs, err]
SearchResult(st, tidx, collectionName, text) ==
    LoadAll(st, collectionName, ftsSearch(tidx, collectionName, text), <<>>)

Search(collectionName, text) ==
    /\ ret' = Result("Search", "", "", <<>>,
                     SearchResult(store, textIndex, collectionName, text).docs,
                     SearchResult(store, textIndex, collectionName, text).err)
    /\ nops < MaxOps
    /\ nops' = nops + 1
    /\ UNCHANGED <<store, index, textIndex>>

(***************************************************************************)
(* The same calls when the key-value engine fails.  During a call with     *)
(* fault f every operation on the store f returns KVError, an error other  *)
(* than not-found.  An action below is a call in which such an operation   *)
(* is reached; ret.arg names the store that failed.                        *)
(***************************************************************************)
Faults == {"store", "index", "textIndex"}

KVError == "EIO"

Failed(fault) == [fault |-> fault]

\* AddToIndex when the text index fails: the first Get of a token returns the
\* error, unless the call panics or finds no token before it
FaultAddToIndex(document) ==
    LET r == AddToIndex(Empty, "", "", document)
    IN  IF r.kv # Empty THEN KVError ELSE IF r.panic THEN "panic" ELSE "nil"

RECURSIVE FaultDeleteFromIndex(_, _)
\* DeleteFromIndex when the text index fails, the fields taken in the order given
FaultDeleteFromIndex(document, order) ==
    IF order = <<>> THEN "nil"
    ELSE LET fieldValue == document.v[order[1]]
         IN  IF fieldValue.t = "nil" THEN "panic"
             ELSE IF fieldValue.t = "string" /\ analyze(fieldValue.v) # <<>>
                  THEN KVError
                  ELSE FaultDeleteFromIndex(document, Tail(order))

RECURSIVE TagTokens(_, _)
\* the tokens the tag loop of AddToIndex adds for one field, up to a panic
TagTokens(fieldValue, tagValues) ==
    IF tagValues = <<>> THEN <<>>
    ELSE IF tagValues[1] = "textIndex"
         THEN IF fieldValue.t # "string" THEN <<>>
              ELSE analyze(fieldValue.v) \o TagTokens(fieldValue, Tail(tagValues))
         ELSE TagTokens(fieldValue, Tail(tagValues))

RECURSIVE AddedTokens(_, _)
\* the tokens AddToIndex adds from field i on, in the order of its Gets and Sets
AddedTokens(document, i) ==
    IF i > Len(document.fields) THEN <<>>
    ELSE LET name == document.fields[i]
             tagValues == Split(document.tag[name], ";")
             tokens == TagTokens(document.val[name], tagValues)
         IN  IF AddTags(Empty, "", "", document.val[name], tagValues).panic
             THEN tokens
             ELSE tokens \o AddedTokens(document, i + 1)

\* an InsertOne that undoes its writes before it returns the error
FaultInsertRollback(collectionName, document, id, fault) ==
    LET documentMap == DocumentMap(document, id)
        key == getDocumentKey(collectionName, id)
    IN  /\ nops < MaxOps
        /\ Cardinality(DOMAIN store) < MaxDocs
        /\ nops' = nops + 1
        /\ ret' = Result("InsertOne", collectionName, "", Failed(fault), <<>>, KVError)
        /\ fault # "store" => key \notin DOMAIN store
        /\ UNCHANGED <<store, index, textIndex>>

\* InsertOne when a call of the engine fails: it returns the error where it is,
\* with what it wrote before
FaultInsertOne(collectionName, document, id, fault) ==
    LET documentMap == DocumentMap(document, id)
        key == getDocumentKey(collectionName, id)
    IN  /\ nops < MaxOps
        /\ Cardinality(DOMAIN store) < MaxDocs
        /\ nops' = nops + 1
        /\ ret' = Result("InsertOne", collectionName, "", Failed(fault), <<>>, KVError)
        /\ CASE fault = "store" ->
                   \* db.store.Get fails
                   UNCHANGED <<store, index, textIndex>>
             [] fault = "index" ->
                   \* the document is written; a db.index.Get or Set fails after
                   \* n pairs of indexDocument were written
                   /\ key \notin DOMAIN store
                   /\ store' = KVSet(store, key, StoredBytes(documentMap))
                   /\ \E pv \in getPathValues(documentMap, "") :
                      \E n \in 0 .. Len(pv) - 1 :
                          index' = indexDocument(index, collectionName, id,
                                                 SubSeq(pv, 1, n))
                   /\ UNCHANGED textIndex
             [] fault = "textIndex" ->
                   \* written and indexed; a fts.textIndex.Get or Set fails
                   \* after n tokens of AddToIndex were added
                   /\ key \notin DOMAIN store
                   /\ FaultAddToIndex(document) = KVError
                   /\ store' = KVSet(store, key, StoredBytes(documentMap))
                   /\ index' \in {indexDocument(index, collectionName, id, pv) :
                                      pv \in getPathValues(documentMap, "")}
                   /\ \E n \in 0 .. Len(AddedTokens(document, 1)) - 1 :
                          textIndex' = AddTokens(textIndex, collectionName, id,
                                                 SubSeq(AddedTokens(document, 1), 1, n))

FaultDeleteOneById(collectionName, id, fault) ==
    LET found == FindOneById(store, collectionName, id)
        document == found.doc
    IN  /\ nops < MaxOps
        /\ nops' = nops + 1
        /\ ret' = Result("DeleteOneById", collectionName, id, Failed(fault), <<>>,
                         KVError)
        /\ CASE fault = "store" ->
                   \* the Get of FindOneById fails
                   UNCHANGED <<store, index, textIndex>>
             [] fault = "index" ->
                   \* the first db.index.Get of deleteDocumentFromIndex fails
                   /\ found.err = "nil"
                   /\ \E pv \in getPathValues(document, "") : pv # <<>>
                   /\ UNCHANGED <<store, index, textIndex>>
             [] fault = "textIndex" ->
                   \* de-indexed, then the first fts.textIndex.Get fails
                   /\ found.err = "nil"
                   /\ \E order \in SeqPerms(DOMAIN WithoutId(document).v) :
                          FaultDeleteFromIndex(WithoutId(document), order) = KVError
                   /\ index' \in {deleteDocumentFromIndex(index, collectionName, id, pv) :
                                      pv \in getPathValues(document, "")}
                   /\ UNCHANGED <<store, textIndex>>

\* FindOneById when the Get on the store fails
FaultFindById(collectionName, id) ==
    /\ nops < MaxOps
    /\ nops' = nops + 1
    /\ ret' = Result("FindOneById", collectionName, id, Failed("store"),
                     <<NilDocument>>, KVError)
    /\ UNCHANGED <<store, index, textIndex>>

\* what FindMany returns when an operation on the store fault fails in it:
\* [docs, err], or nothing when the call reaches no such operation
FaultFindManyResults(st, idx, collectionName, query, fault) ==
    IF ~fallbackToFullScan(query)
    THEN IF fault = "index"
         THEN \* the first db.index.Get
              {[docs |-> <<>>, err |-> KVError]}
         ELSE IF fault = "store"
                 /\ allMatchedIdsFromIndex(idx, collectionName, query) # {}
         THEN \* FindOneById of the first candidate
              {[docs |-> <<>>, err |-> KVError]}
         ELSE {}
    ELSE IF fault = "store"
         THEN \* the iterator is not valid and its Error() is not read
              {[docs |-> <<>>, err |-> "nil"]}
         ELSE {}

FaultFindMany(collectionName, query, limit, fault) ==
    /\ nops < MaxOps
    /\ nops' = nops + 1
    /\ \E r \in FaultFindManyResults(store, index, collectionName, query, fault) :
           ret' = Result("FindMany", collectionName, "", Failed(fault), r.docs, r.err)
    /\ UNCHANGED <<store, index, textIndex>>

\* FindOne reads only the length of what FindMany returned
FaultFindOne(collectionName, query, fault) ==
    /\ nops < MaxOps
    /\ nops' = nops + 1
    /\ \E r \in FaultFindManyResults(store, index, collectionName, query, fault) :
           ret' = IF Len(r.docs) = 0
                  THEN Result("FindOne", collectionName, "", Failed(fault),
                              <<NilDocument>>, "ErrNoDocuments")
                  ELSE Result("FindOne", collectionName, "", Failed(fault),
                              <<r.docs[1]>>, r.err)
    /\ UNCHANGED <<store, index, textIndex>>

FaultSearch(collectionName, text, fault) ==
    /\ nops < MaxOps
    /\ nops' = nops + 1
    /\ \/ \* the first fts.textIndex.Get of fts.Search
          fault = "textIndex" /\ analyze(text) # <<>>
       \/ \* FindOneById of the first matched id
          fault = "store" /\ ftsSearch(textIndex, collectionName, text) # <<>>
    /\ ret' = Result("Search", collectionName, "", Failed(fault), <<>>, KVError)
    /\ UNCHANGED <<store, index, textIndex>>

(***************************************************************************)
(* The queries of the model.                                               *)
(***************************************************************************)
QAll == <<>>

QAge == <<Group("AND", <<Condition(<<"age">>, EQ, IntV(30))>>)>>

QDeep == <<Group("AND", <<Condition(<<"a", ".", "b", ".", "c">>, EQ, StrV(<<"x">>))>>)>>

QNil == <<Group("AND", <<Condition(<<"x">>, EQ, NilV)>>)>>

QPost ==
    <<Group("AND", <<Condition(<<"address", ".", "postcode">>, EQ, StrV(<<"10000">>)),
                     Condition(<<"name">>, NE, StrV(<<"Jane">>))>>)>>

QOr ==
    <<Group("OR", <<Condition(<<"age">>, EQ, StrV(<<"30">>)),
                    Condition(<<"n">>, EQ, StrV(<<"30">>)),
                    Condition(<<"name">>, EQ, StrV(<<"Jane">>))>>)>>

QRange ==
    <<Group("OR", <<Condition(<<"name">>, EQ, StrV(<<"Jane">>)),
                    Condition(<<"n">>, EQ, StrV(<<"30">>))>>),
      Group("AND", <<Condition(<<"age">>, GT, IntV(20)),
                     Condition(<<"age">>, LTE, StrV(<<"30">>))>>)>>

QTags == <<Group("AND", <<Condition(<<"tags">>, EQ, StrV(<<"[t]">>))>>)>>

Queries == {QAll, QAge, QDeep, QNil, QPost, QOr, QRange, QTags}

\* search texts: the example's, stop words only, an unknown word with a known
\* one, and a word between two mentions of another
TItalyPizza == <<"italy", " ", "and", " ", "Pizza">>

TStop == <<"The", " ", "and">>

TUnknown == <<"sushi", " ", "pizza">>

TThree == <<"pizza", " ", "Jane", " ", "pizza">>

Texts == {TItalyPizza, TStop, TUnknown, TThree}

Limits == 0..MaxLimit

\* ids a caller can ask for: the generated ones and one never generated
AskedIds == Range(Ids) \cup {"nonexistent"}

Init ==
    /\ store = Empty
    /\ index = Empty
    /\ textIndex = Empty
    /\ nops = 0
    /\ ret = Result("Open", "", "", <<>>, <<>>, "nil")

Insert == \E c \in Range(Collections), r \in Records, id \in Range(Ids) : InsertOne(c, r, id)

Delete == \E c \in Range(Collections), id \in Range(Ids) : DeleteOneById(c, id)

ReadById == \E c \in Range(Collections), id \in AskedIds : FindById(c, id)

ReadMany == \E c \in Range(Collections), q \in Queries, k \in Limits : FindMany(c, q, k)

ReadOne == \E c \in Range(Collections), q \in Queries : FindOne(c, q)

ReadSearch == \E c \in Range(Collections), text \in Texts : Search(c, text)

Next == Insert \/ Delete \/ ReadById \/ ReadMany \/ ReadOne \/ ReadSearch

Spec == Init /\ [][Next]_vars

\* the slices InsertMany is called with: employees and restaurants in turn
Batches ==
    {[i \in 1 .. n |-> IF i % 2 = 1 THEN Emp ELSE Rest] : n \in 1 .. MaxBatch}

InsertBatch ==
    \E c \in Range(Collections), documents \in Batches :
        \E uuids \in [DOMAIN documents -> Range(Ids)] : InsertMany(c, documents, uuids)

NextMany == InsertBatch \/ Delete

SpecMany == Init /\ [][NextMany]_vars

\* the three calls that write, on either collection: InsertOne with the
\* nested record, InsertMany with a batch of one document or of two
InsertDeep == \E c \in Range(Collections), id \in Range(Ids) : InsertOne(c, Deep, id)

InsertShort ==
    \E c \in Range(Collections), documents \in {<<Emp>>, <<Emp, Rest>>} :
        \E uuids \in [DOMAIN documents -> Range(Ids)] : InsertMany(c, documents, uuids)

NextWrites == InsertDeep \/ InsertShort \/ Delete

SpecWrites == Init /\ [][NextWrites]_vars

(***************************************************************************)
(* The matcher on its own: a decoded document is drawn, and matchCondition *)
(* or matchQuery is applied to it.  ret keeps the document, the condition  *)
(* or query, and the boolean returned.                                     *)
(***************************************************************************)
Matched(op, document, arg, result) ==
    [op |-> op, document |-> document, arg |-> arg, result |-> result]

\* the documents FindMany hands to the matcher
Documents == {DocumentMap(r, Ids[1]) : r \in Records \cup {Flags}}

\* paths of conditions: fields of the records, and paths with a missing key or
\* with a segment that is not a map
Paths ==
    {<<"name">>, <<"age">>, <<"n">>, <<"tags">>, <<"active">>, <<"boss">>,
     <<"address">>, <<"address", ".", "postcode">>, <<"a", ".", "b", ".", "c">>,
     <<"x">>, <<"address", ".", "x">>, <<"x", ".", "y">>, <<"name", ".", "x">>}

Operators == {EQ, NE, GT, GTE, LT, LTE}

Values ==
    {IntV(30), StrV(<<"30">>), NumV(25), StrV(<<"Jane">>), StrV(<<"x">>),
     StrV(<<"10000">>), BoolV(TRUE), NilV}

Conditions ==
    {Condition(path, operator, value) :
        path \in Paths, operator \in Operators, value \in Values}

\* operands of the groups: two of the example's conditions
Operands ==
    {Condition(<<"age">>, EQ, IntV(30)), Condition(<<"name">>, NE, StrV(<<"Jane">>))}

Groups ==
    {Group(operator, operands) :
        operator \in {"AND", "OR"},
        operands \in UNION {[1 .. n -> Operands] : n \in 0 .. MaxOperands}}

MatchQueries == UNION {[1 .. n -> Groups] : n \in 0 .. MaxGroups}

InitMatch ==
    /\ store = Empty
    /\ index = Empty
    /\ textIndex = Empty
    /\ nops = 0
    /\ ret \in {Matched("document", document, <<>>, FALSE) : document \in Documents}

ApplyCondition ==
    /\ ret.op = "document"
    /\ \E condition \in Conditions :
           ret' = Matched("matchCondition", ret.document, condition,
                          matchCondition(ret.document, condition))
    /\ UNCHANGED <<store, index, textIndex, nops>>

ApplyQuery ==
    /\ ret.op = "document"
    /\ \E query \in MatchQueries :
           ret' = Matched("matchQuery", ret.document, query,
                          matchQuery(ret.document, query))
    /\ UNCHANGED <<store, index, textIndex, nops>>

\* the classification of FindMany for a query; the document plays no part
ApplyPlanner ==
    /\ ret.op = "document"
    /\ \E query \in MatchQueries :
           ret' = Matched("fallbackToFullScan", ret.document, query,
                          fallbackToFullScan(query))
    /\ UNCHANGED <<store, index, textIndex, nops>>

NextMatch == ApplyCondition \/ ApplyQuery \/ ApplyPlanner

SpecMatch == InitMatch /\ [][NextMatch]_vars

FailInsert ==
    \E c \in Range(Collections), r \in Records, id \in Range(Ids), f \in Faults :
        FaultInsertOne(c, r, id, f)

FailDelete ==
    \E c \in Range(Collections), id \in Range(Ids), f \in Faults :
        FaultDeleteOneById(c, id, f)

FailReadById == \E c \in Range(Collections), id \in AskedIds : FaultFindById(c, id)

FailReadMany ==
    \E c \in Range(Collections), q \in Queries, k \in Limits, f \in Faults :
        FaultFindMany(c, q, k, f)

FailReadOne ==
    \E c \in Range(Collections), q \in Queries, f \in Faults : FaultFindOne(c, q, f)

FailSearch ==
    \E c \in Range(Collections), text \in Texts, f \in Faults : FaultSearch(c, text, f)

\* the calls, each with or without a failure of the engine
NextFault ==
    \/ Insert \/ Delete
    \/ FailInsert \/ FailDelete \/ FailReadById \/ FailReadMany \/ FailReadOne
    \/ FailSearch

SpecFault == Init /\ [][NextFault]_vars

\* inserts into one collection, each with or without a failure of the engine
InsertFirst == \E r \in Records, id \in Range(Ids) : InsertOne(Collections[1], r, id)

FailInsertFirst ==
    \E r \in Records, id \in Range(Ids), f \in Faults :
        FaultInsertOne(Collections[1], r, id, f)

NextPartial == InsertFirst \/ FailInsertFirst

SpecPartial == Init /\ [][NextPartial]_vars

\* inserts and deletes, the struct with a nil pointer among the records
InsertAny ==
    \E c \in Range(Collections), r \in Records \cup {Flags}, id \in Range(Ids) :
        InsertOne(c, r, id)

NextNil == InsertAny \/ Delete

SpecNil == Init /\ [][NextNil]_vars

\* inserts and deletes of records with text-indexed fields, one of them with
\* a nil pointer
TextRecords == {Emp, Rest, Staff}

InsertText ==
    \E c \in Range(Collections), r \in TextRecords, id \in Range(Ids) :
        InsertOne(c, r, id)

NextText == InsertText \/ Delete

SpecText == Init /\ [][NextText]_vars

(***************************************************************************)
(* FindMany on the index path while another goroutine deletes.  Between    *)
(* the loop that reads the posting lists and the loop that loads the       *)
(* candidates, ret holds the call in flight: its query, its limit, the     *)
(* candidates in the order of the range over idsConditionCount, and the    *)
(* ids deleted since.                                                      *)
(***************************************************************************)
QBoss == <<Group("AND", <<Condition(<<"boss">>, EQ, NilV)>>)>>

QAddressBoss ==
    <<Group("AND", <<Condition(<<"address", ".", "boss">>, EQ, NilV)>>)>>

RaceQueries == {QAge, QPost, QOr, QBoss, QAddressBoss}

RaceRecords == {Emp, Rest, Vacant, Unset}

Reading == "FindMany (candidates read)"

InsertBefore ==
    /\ ret.op # Reading
    /\ \E r \in RaceRecords, id \in Range(Ids) : InsertOne(Collections[1], r, id)

\* FindMany up to the end of the loop over idsConditionCount
ReadLists ==
    /\ ret.op # Reading
    /\ nops < MaxOps
    /\ nops' = nops + 1
    /\ \E q \in RaceQueries, k \in Limits :
       \E ids \in SeqPerms(allMatchedIdsFromIndex(index, Collections[1], q)) :
           ret' = Result(Reading, Collections[1], "",
                         [query |-> q, limit |-> k, ids |-> ids, deleted |-> <<>>],
                         <<>>, "nil")
    /\ UNCHANGED <<store, index, textIndex>>

\* a DeleteOneById of another goroutine, from its start to its return
DeleteMeanwhile ==
    /\ ret.op = Reading
    /\ \E id \in Range(Ids) :
       \E out \in DeleteOneByIdOutcomes(
                     [store |-> store, index |-> index, textIndex |-> textIndex],
                     ret.coll, id) :
           /\ out.err = "nil"
           /\ store' = out.store
           /\ index' = out.index
           /\ textIndex' = out.textIndex
           /\ ret' = [ret EXCEPT !.arg.deleted = Append(@, id)]
    /\ UNCHANGED nops

\* the loop of FindMany over allMatchedIdsFromIndex, and its return
LoadCandidates ==
    /\ ret.op = Reading
    /\ ret' = Result("FindMany", ret.coll, "", ret.arg,
                     VerifyCandidates(store, ret.coll, ret.arg.query, ret.arg.limit,
                                      ret.arg.ids, <<>>),
                     "nil")
    /\ UNCHANGED <<store, index, textIndex, nops>>

NextRace == InsertBefore \/ ReadLists \/ DeleteMeanwhile \/ LoadCandidates

SpecRace == Init /\ [][NextRace]_vars

(***************************************************************************)
(* Two InsertOne calls of two goroutines, one key-value operation at a     *)
(* time.  ret holds the two calls: where each stands (pc), its id, the     *)
(* path-value pairs and the tokens it has still to add, the bytes its last *)
(* Get returned while it has not Set them (held), and whether a call took  *)
(* a step while the other was between its first write and its return.      *)
(***************************************************************************)
Interleaved == "InsertOne (two calls)"

IdleCall ==
    [pc |-> "idle", id |-> "", pv |-> <<>>, tokens |-> <<>>, held |-> FALSE,
     idsString |-> <<>>]

Calls ==
    IF ret.op = Interleaved THEN ret.arg
    ELSE [calls |-> <<IdleCall, IdleCall>>, overlapped |-> FALSE]

Running(call) == call.pc \in {"index", "text"}

\* the loop the call is in once its present one has nothing left
Position(pv, tokens) ==
    IF pv # <<>> THEN "index" ELSE IF tokens # <<>> THEN "text" ELSE "done"

\* call t has become call, by a step of its own
Stepped(t, call) ==
    ret' = Result(Interleaved, Collections[1], "",
                  [calls |-> [Calls.calls EXCEPT ![t] = call],
                   overlapped |-> Calls.overlapped \/ Running(Calls.calls[3 - t])],
                  <<>>, "nil")

\* db.store.Get and db.store.Set of the new document
PrimaryWrite(t) ==
    /\ Calls.calls[t].pc = "idle"
    /\ \E r \in {Emp, Rest} :
       \E pv \in getPathValues(DocumentMap(r, Ids[t]), "") :
           /\ store' = KVSet(store, getDocumentKey(Collections[1], Ids[t]),
                             StoredBytes(DocumentMap(r, Ids[t])))
           /\ Stepped(t, [pc |-> Position(pv, AddedTokens(r, 1)), id |-> Ids[t],
                          pv |-> pv, tokens |-> AddedTokens(r, 1), held |-> FALSE,
                          idsString |-> <<>>])
    /\ UNCHANGED <<index, textIndex, nops>>

\* an index Set that writes the id alone, whatever the Get returned
IndexSetAlone(t) ==
    LET call == Calls.calls[t]
    IN  /\ call.pc = "index"
        /\ call.held
        /\ index' = KVSet(index, getIndexKey(Collections[1], call.pv[1]), <<call.id>>)
        /\ Stepped(t, [call EXCEPT !.pc = Position(Tail(call.pv), call.tokens),
                                   !.pv = Tail(call.pv), !.held = FALSE,
                                   !.idsString = <<>>])
        /\ UNCHANGED <<store, textIndex, nops>>

\* db.index.Get of indexDocument for the next pair
IndexGet(t) ==
    LET call == Calls.calls[t]
    IN  /\ call.pc = "index"
        /\ ~call.held
        /\ Stepped(t, [call EXCEPT !.held = TRUE,
                                   !.idsString =
                                       KVGet(index, getIndexKey(Collections[1],
                                                                call.pv[1]))])
        /\ UNCHANGED <<store, index, textIndex, nops>>

\* db.index.Set of indexDocument with the bytes made of what Get returned
IndexSet(t) ==
    LET call == Calls.calls[t]
    IN  /\ call.pc = "index"
        /\ call.held
        /\ index' = KVSet(index, getIndexKey(Collections[1], call.pv[1]),
                          AppendId(call.idsString, call.id))
        /\ Stepped(t, [call EXCEPT !.pc = Position(Tail(call.pv), call.tokens),
                                   !.pv = Tail(call.pv), !.held = FALSE,
                                   !.idsString = <<>>])
        /\ UNCHANGED <<store, textIndex, nops>>

\* fts.textIndex.Get of AddToIndex for the next token
TextGet(t) ==
    LET call == Calls.calls[t]
    IN  /\ call.pc = "text"
        /\ ~call.held
        /\ Stepped(t, [call EXCEPT !.held = TRUE,
                                   !.idsString =
                                       KVGet(textIndex,
                                             ftsGetIndexKey(Collections[1],
                                                            call.tokens[1]))])
        /\ UNCHANGED <<store, index, textIndex, nops>>

\* fts.textIndex.Set of AddToIndex; after the last token the call returns
TextSet(t) ==
    LET call == Calls.calls[t]
    IN  /\ call.pc = "text"
        /\ call.held
        /\ textIndex' = KVSet(textIndex,
                              ftsGetIndexKey(Collections[1], call.tokens[1]),
                              AppendId(call.idsString, call.id))
        /\ Stepped(t, [call EXCEPT !.pc = Position(<<>>, Tail(call.tokens)),
                                   !.tokens = Tail(call.tokens), !.held = FALSE,
                                   !.idsString = <<>>])
        /\ UNCHANGED <<store, index, nops>>

NextInterleaved ==
    \E t \in 1 .. 2 :
        PrimaryWrite(t) \/ IndexGet(t) \/ IndexSet(t) \/ TextGet(t) \/ TextSet(t)

SpecInterleaved == Init /\ [][NextInterleaved]_vars

(***************************************************************************)
(* One writer, one key-value write at a time.  ret holds the call in       *)
(* flight: the loop it is in (pc), its id, and the pairs and the tokens it *)
(* has still to walk.  A call can end at any point, by an error of the     *)
(* engine or a crash; the writer then goes on with another call.           *)
(***************************************************************************)
Writing == "one writer"

IdleWriter == [pc |-> "idle", id |-> "", pv |-> <<>>, tokens |-> <<>>]

Writer == IF ret.op = Writing THEN ret.arg ELSE IdleWriter

Wrote(writer) == ret' = Result(Writing, Collections[1], "", writer, <<>>, "nil")

\* the loop an InsertOne is in once the loops before have nothing left
InsertPosition(pv, tokens) ==
    IF pv # <<>> THEN "insert.index" ELSE IF tokens # <<>> THEN "insert.text" ELSE "idle"

\* the loop a DeleteOneById is in once the loops before have nothing left
DeletePosition(pv, tokens) ==
    IF pv # <<>> THEN "delete.index"
    ELSE IF tokens # <<>> THEN "delete.text" ELSE "delete.store"

RECURSIVE FieldTokens(_, _)
\* the tokens DeleteFromIndex walks, the fields of the map taken in the order
\* given
FieldTokens(document, order) ==
    IF order = <<>> THEN <<>>
    ELSE (IF document.v[order[1]].t = "string"
          THEN analyze(document.v[order[1]].v) ELSE <<>>)
         \o FieldTokens(document, Tail(order))

\* InsertOne up to db.store.Set
StartInsert ==
    /\ Writer.pc = "idle"
    /\ nops < MaxOps
    /\ nops' = nops + 1
    /\ \E r \in Records, id \in Range(Ids) :
           /\ getDocumentKey(Collections[1], id) \notin DOMAIN store
           /\ store' = KVSet(store, getDocumentKey(Collections[1], id),
                             StoredBytes(DocumentMap(r, id)))
           /\ \E pv \in getPathValues(DocumentMap(r, id), "") :
                  Wrote([pc |-> InsertPosition(pv, AddedTokens(r, 1)), id |-> id,
                         pv |-> pv, tokens |-> AddedTokens(r, 1)])
    /\ UNCHANGED <<index, textIndex>>

\* one round of the loop of indexDocument
InsertPair ==
    LET writer == Writer
        indexKey == getIndexKey(Collections[1], writer.pv[1])
    IN  /\ writer.pc = "insert.index"
        /\ index' = KVSet(index, indexKey, AppendId(KVGet(index, indexKey), writer.id))
        /\ Wrote([writer EXCEPT !.pc = InsertPosition(Tail(writer.pv), writer.tokens),
                                !.pv = Tail(writer.pv)])
        /\ UNCHANGED <<store, textIndex, nops>>

\* one round of the loop over tokens of AddToIndex
InsertToken ==
    LET writer == Writer
        indexKey == ftsGetIndexKey(Collections[1], writer.tokens[1])
    IN  /\ writer.pc = "insert.text"
        /\ textIndex' = KVSet(textIndex, indexKey,
                              AppendId(KVGet(textIndex, indexKey), writer.id))
        /\ Wrote([writer EXCEPT !.pc = InsertPosition(<<>>, Tail(writer.tokens)),
                                !.tokens = Tail(writer.tokens)])
        /\ UNCHANGED <<store, index, nops>>

\* DeleteOneById up to the call of deleteDocumentFromIndex
StartDelete ==
    /\ Writer.pc = "idle"
    /\ nops < MaxOps
    /\ nops' = nops + 1
    /\ \E id \in Range(Ids) :
           LET found == FindOneById(store, Collections[1], id)
           IN  /\ found.err = "nil"
               /\ \E pv \in getPathValues(found.doc, "") :
                  \E order \in SeqPerms(DOMAIN WithoutId(found.doc).v) :
                      Wrote([pc |-> DeletePosition(pv, FieldTokens(found.doc, order)),
                             id |-> id, pv |-> pv,
                             tokens |-> FieldTokens(found.doc, order)])
    /\ UNCHANGED <<store, index, textIndex>>

\* one round of the loop of deleteDocumentFromIndex: it returns nil at a pair
\* whose posting list has no bytes
DeletePair ==
    LET writer == Writer
        indexKey == getIndexKey(Collections[1], writer.pv[1])
        idsString == KVGet(index, indexKey)
        newIds == RemoveId(idsString, writer.id)
    IN  /\ writer.pc = "delete.index"
        /\ IF NoBytes(idsString)
           THEN /\ index' = index
                /\ Wrote([writer EXCEPT !.pc = DeletePosition(<<>>, writer.tokens),
                                        !.pv = <<>>])
           ELSE /\ index' = IF newIds = <<>> THEN KVDelete(index, indexKey)
                            ELSE KVSet(index, indexKey, Join(newIds, ","))
                /\ Wrote([writer EXCEPT
                              !.pc = DeletePosition(Tail(writer.pv), writer.tokens),
                              !.pv = Tail(writer.pv)])
        /\ UNCHANGED <<store, textIndex, nops>>

\* one round of the loop over tokens of DeleteFromIndex
DeleteToken ==
    LET writer == Writer
        indexKey == ftsGetIndexKey(Collections[1], writer.tokens[1])
        idsString == KVGet(textIndex, indexKey)
        newIds == RemoveId(idsString, writer.id)
    IN  /\ writer.pc = "delete.text"
        /\ textIndex' = IF NoBytes(idsString) THEN textIndex
                        ELSE IF newIds = <<>> THEN KVDelete(textIndex, indexKey)
                        ELSE KVSet(textIndex, indexKey, Join(newIds, ","))
        /\ Wrote([writer EXCEPT !.pc = DeletePosition(<<>>, Tail(writer.tokens)),
                                !.tokens = Tail(writer.tokens)])
        /\ UNCHANGED <<store, index, nops>>

\* db.store.Delete, and the return
DeletePrimary ==
    /\ Writer.pc = "delete.store"
    /\ store' = KVDelete(store, getDocumentKey(Collections[1], Writer.id))
    /\ Wrote(IdleWriter)
    /\ UNCHANGED <<index, textIndex, nops>>

\* the call ends where it is: an operation of the engine failed, or the
\* process stopped and was started again
Fail ==
    /\ Writer.pc # "idle"
    /\ Wrote(IdleWriter)
    /\ UNCHANGED <<store, index, textIndex, nops>>

NextWriter ==
    \/ StartInsert \/ InsertPair \/ InsertToken
    \/ StartDelete \/ DeletePair \/ DeleteToken \/ DeletePrimary
    \/ Fail

SpecWriter == Init /\ [][NextWriter]_vars

(***************************************************************************)
(* Properties.  The helpers below read the stores the way the properties   *)
(* speak of them.                                                          *)
(***************************************************************************)
\* the two slices hold the same elements, each as often
SameMultiset(a, b) ==
    /\ Len(a) = Len(b)
    /\ \A x \in Range(a) \cup Range(b) : Count(a, x) = Count(b, x)

Min(a, b) == IF a < b THEN a ELSE b

\* the secondary or inverted key belongs to the collection
InCollection(indexKey, collectionName) ==
    SubSeq(indexKey, 1, Len(collectionName) + 1) = collectionName \o ":"

\* the ids of the posting list stored under indexKey
ListedIds(kv, indexKey) == Split(KVGet(kv, indexKey), ",")

\* no posting list of the collection in kv names the id
Unlisted(kv, collectionName, id) ==
    \A k \in DOMAIN kv :
        InCollection(k, collectionName) => id \notin Range(ListedIds(kv, k))

RECURSIVE Leaves(_, _)
\* the scalar leaves of a stored map, each with its full dotted path from the
\* root; _id and whatever is inside an array are left out
Leaves(document, path) ==
    UNION {LET p == IF path = "" THEN key ELSE path \o "." \o key
               value == document.v[key]
           IN  CASE value.t = "map" -> Leaves(value, p)
                 [] value.t = "array" -> {}
                 [] OTHER -> {<<p, value>>} :
               key \in DOMAIN document.v \ {"_id"}}

\* the documents of the collection that match the query: a scan of the primary
\* keys filtered by matchQuery, without limit
Reference(collectionName, query) ==
    ScanCollection(store, collectionName, query, 0, IterKeys(store), <<>>)

(***************************************************************************)
(* C1.  Query equivalence: in every state, for every collection and every  *)
(* query, each slice FindMany can return with Limit 0 holds the same       *)
(* multiset of documents as the scan of the collection's primary keys      *)
(* filtered by matchQuery.  The code does not keep this: a posting list    *)
(* exists only for scalar leaves and under the path getPathValues built,   *)
(* and an absent posting list yields the candidate id "".                  *)
(***************************************************************************)
C1_QueryEquivalence ==
    \A c \in Range(Collections), q \in Queries :
        \A documents \in FindManyDocs(store, index, c, q, 0) :
            SameMultiset(documents, Reference(c, q))

(***************************************************************************)
(* C2.  Delete soundness: when DeleteOneById(C, d) has returned success,   *)
(* FindOneById(C, d) gives ErrDocumentNotExists and no secondary and no    *)
(* inverted posting list of C names d.  The code does not keep this:       *)
(* deleteDocumentFromIndex returns at the first pair whose posting list is *)
(* gone and leaves the pairs after it indexed.                             *)
(***************************************************************************)
C2_DeleteSoundness ==
    (ret.op = "DeleteOneById" /\ ret.err = "nil") =>
        /\ FindOneById(store, ret.coll, ret.id).err = "ErrDocumentNotExists"
        /\ Unlisted(index, ret.coll, ret.id)
        /\ Unlisted(textIndex, ret.coll, ret.id)

(***************************************************************************)
(* C3.  Secondary completeness (I1): for every stored document d of C and  *)
(* every scalar leaf of d with full dotted path p and value v, the posting *)
(* list at C:p=str(v) names d exactly once.  The code does not keep this:  *)
(* getPathValues hands the key, not the path so far, to the nested call.   *)
(***************************************************************************)
C3_SecondaryCompleteness ==
    \A key \in DOMAIN store :
        \A leaf \in Leaves(store[key], "") :
            Count(ListedIds(index, getIndexKey(key[1], buildPathValue(leaf[1], leaf[2]))),
                  key[3]) = 1

(***************************************************************************)
(* C4.  Secondary minimality (I2): between calls, no secondary posting     *)
(* list of a collection C names an id without a document under C:id.  The  *)
(* code does not keep this, for the reason given at C2.                    *)
(***************************************************************************)
C4_SecondaryMinimality ==
    \A k \in DOMAIN index :
        \A id \in Range(ListedIds(index, k)) :
            \E key \in DOMAIN store : InCollection(k, key[1]) /\ key[3] = id

(***************************************************************************)
(* C5.  Posting-list well-formedness (I4): every value stored under a      *)
(* secondary or inverted key is a non-empty comma-separated list of        *)
(* distinct, non-empty ids, without a trailing separator; no key holds an  *)
(* empty list.                                                             *)
(***************************************************************************)
WellFormed(idsString) ==
    LET ids == Split(idsString, ",")
    IN  /\ ~NoBytes(idsString)
        /\ \A i \in DOMAIN ids : ids[i] # ""
        /\ \A i, j \in DOMAIN ids : i # j => ids[i] # ids[j]
        /\ Join(ids, ",") = idsString

C5_PostingListsWellFormed ==
    /\ \A k \in DOMAIN index : WellFormed(index[k])
    /\ \A k \in DOMAIN textIndex : WellFormed(textIndex[k])

\* a document was deleted, and the lists of the one that stays are in both stores
C5_Witness ==
    /\ ret.op = "DeleteOneById" /\ ret.err = "nil"
    /\ \E k \in DOMAIN textIndex : ListedIds(textIndex, k) = <<"d2">>
    /\ \E k \in DOMAIN index : ListedIds(index, k) = <<"d2">>

(***************************************************************************)
(* C6.  Inverted completeness (I3): for every stored document d of C that  *)
(* InsertOne built from the struct r, and every token t that analyze gives *)
(* for a field of r annotated textIndex, the inverted posting list at C:t  *)
(* names d exactly once, however often t occurs in the fields of r.        *)
(***************************************************************************)
\* the fields of the struct whose objectdb tag has the value textIndex
TextFields(r) ==
    {r.fields[i] : i \in {j \in DOMAIN r.fields :
                             "textIndex" \in Range(Split(r.tag[r.fields[j]], ";"))}}

C6_InvertedCompleteness ==
    \A key \in DOMAIN store, r \in Records :
        store[key] = DocumentMap(r, key[3]) =>
            \A f \in TextFields(r) :
                \A t \in Range(analyze(r.val[f].v)) :
                    Count(ListedIds(textIndex, ftsGetIndexKey(key[1], t)), key[3]) = 1

\* two restaurants of one collection: "pizza" comes twice from the name and
\* once more from the cuisine of each
C6_Witness ==
    \E c \in Range(Collections) :
        /\ \A i \in DOMAIN Ids :
               /\ getDocumentKey(c, Ids[i]) \in DOMAIN store
               /\ store[getDocumentKey(c, Ids[i])] = DocumentMap(Rest, Ids[i])
        /\ Count(analyze(Rest.val.name.v) \o analyze(Rest.val.cuisine.v), "pizza") = 3
        /\ Len(ListedIds(textIndex, ftsGetIndexKey(c, "pizza"))) = 2

(***************************************************************************)
(* C7.  Primary consistency: when InsertOne(C, r) returns the id d without *)
(* error, FindOneById(C, d) returns a document with the fields of r (as    *)
(* JSON decodes them) and _id = d; and a stored document stays as it is    *)
(* for as long as its key is in the store.                                 *)
(***************************************************************************)
\* the document has the fields of the struct r and _id = d
EqualsRecord(document, r, d) ==
    /\ document.t = "map"
    /\ DOMAIN document.v = Range(r.fields) \cup {"_id"}
    /\ document.v["_id"] = StrV(<<d>>)
    /\ \A f \in Range(r.fields) : document.v[f] = Unmarshal(r.val[f])

C7_PrimaryConsistency ==
    [][/\ (ret'.op = "InsertOne" /\ ret'.err = "nil") =>
              /\ FindOneById(store', ret'.coll, ret'.id).err = "nil"
              /\ EqualsRecord(FindOneById(store', ret'.coll, ret'.id).doc,
                              ret'.arg, ret'.id)
        /\ \A key \in DOMAIN store \cap DOMAIN store' : store'[key] = store[key]]_vars

\* a struct with an int field and nested structs was inserted second, and both
\* documents are there
C7_Witness ==
    /\ ret.op = "InsertOne" /\ ret.err = "nil" /\ ret.arg = Deep
    /\ Cardinality(DOMAIN store) = 2
    /\ FindOneById(store, ret.coll, ret.id).doc.v["n"] = NumV(30)

(***************************************************************************)
(* C8.  Result soundness of FindMany: every element FindMany(C, Q, opts)   *)
(* returns is a non-nil document stored under a primary key of C that      *)
(* satisfies matchQuery for Q.  The code does not keep this: the error of  *)
(* FindOneById for a candidate without document is dropped and the nil     *)
(* document goes to matchQuery, which accepts it when every condition      *)
(* compares an absent path with nil.                                       *)
(***************************************************************************)
\* document is stored in the collection and matches the query
StoredMatch(document, collectionName, query) ==
    /\ document.t = "map"
    /\ \E key \in DOMAIN store : key[1] = collectionName /\ store[key] = document
    /\ matchQuery(document, query)

C8_FindManySound ==
    \A c \in Range(Collections), q \in Queries, k \in Limits :
        \A documents \in FindManyDocs(store, index, c, q, k) :
            \A i \in DOMAIN documents : StoredMatch(documents[i], c, q)

(***************************************************************************)
(* C9.  Limit: for every collection, query and k > 0, FindMany with Limit  *)
(* k returns exactly min(k, n) documents, n being the number FindMany      *)
(* returns with Limit 0, and each of them is one of those n.               *)
(***************************************************************************)
C9_Limit ==
    \A c \in Range(Collections), q \in Queries :
        \A all \in FindManyDocs(store, index, c, q, 0) :
            \A k \in Limits \ {0} :
                \A limited \in FindManyDocs(store, index, c, q, k) :
                    /\ Len(limited) = Min(k, Len(all))
                    /\ Range(limited) \subseteq Range(all)

\* a collection where the scan path and the index path both find two
\* documents, more than the limit 1
C9_Witness ==
    \E c \in Range(Collections) :
        /\ fallbackToFullScan(QAll) /\ ~fallbackToFullScan(QOr)
        /\ \E all \in FindManyDocs(store, index, c, QAll, 0) : Len(all) = 2
        /\ \E all \in FindManyDocs(store, index, c, QOr, 0) : Len(all) = 2
        /\ \A limited \in FindManyDocs(store, index, c, QOr, 1) : Len(limited) = 1

(***************************************************************************)
(* C10.  FindOne(C, Q) returns ErrNoDocuments exactly when FindMany(C, Q,  *)
(* Limit 1) gives an empty result; otherwise it returns, without error, a  *)
(* stored document of C that satisfies Q.  The code does not keep the      *)
(* second half: the first element of FindMany's result can be the nil      *)
(* document of C8.                                                         *)
(***************************************************************************)
C10_FindOne ==
    \A c \in Range(Collections), q \in Queries :
        \A found \in FindOneResults(store, index, c, q) :
            /\ (found.err = "ErrNoDocuments") <=>
                   (\E documents \in FindManyDocs(store, index, c, q, 1) :
                        Len(documents) = 0)
            /\ found.err # "ErrNoDocuments" =>
                   found.err = "nil" /\ StoredMatch(found.doc, c, q)

(***************************************************************************)
(* C11.  Error propagation: a call in which an operation of the key-value  *)
(* engine failed with an error other than not-found returns that error.    *)
(* The code does not keep this: FindOne reads the length of FindMany's     *)
(* result before its error and answers ErrNoDocuments, and the scan of     *)
(* FindMany never reads the iterator's error.                              *)
(***************************************************************************)
C11_ErrorPropagation ==
    ("fault" \in DOMAIN ret.arg) => ret.err = KVError

(***************************************************************************)
(* C12.  DeleteOneById(C, id) with no document under the primary key C:id  *)
(* returns ErrDocumentNotExists and leaves the primary, the secondary and  *)
(* the inverted store as they were.                                        *)
(***************************************************************************)
C12_DeleteMissing ==
    [][(ret'.op = "DeleteOneById"
        /\ getDocumentKey(ret'.coll, ret'.id) \notin DOMAIN store) =>
           /\ ret'.err = "ErrDocumentNotExists"
           /\ UNCHANGED <<store, index, textIndex>>]_vars

\* a delete of an id that is not there, in a database that holds a document
C12_Witness ==
    /\ ret.op = "DeleteOneById" /\ ret.err = "ErrDocumentNotExists"
    /\ store # Empty /\ index # Empty /\ textIndex # Empty

(***************************************************************************)
(* C13.  FindOneById(C, id) returns ErrDocumentNotExists exactly when no   *)
(* document is stored under C:id (the id was never inserted, was inserted  *)
(* only into another collection, or was deleted), and otherwise returns    *)
(* the stored document without error.                                      *)
(***************************************************************************)
C13_FindOneById ==
    \A c \in Range(Collections) : \A id \in AskedIds :
        LET found == FindOneById(store, c, id)
            key == getDocumentKey(c, id)
        IN  /\ found.err = "ErrDocumentNotExists" <=> key \notin DOMAIN store
            /\ found.err \in {"nil", "ErrDocumentNotExists"}
            /\ found.err = "nil" => found.doc = store[key]
            /\ (ret.op = "DeleteOneById" /\ ret.err = "nil"
                  /\ c = ret.coll /\ id = ret.id) => found.err = "ErrDocumentNotExists"

\* an id was deleted from one collection and is still stored in the other
C13_Witness ==
    /\ ret.op = "DeleteOneById" /\ ret.err = "nil"
    /\ FindOneById(store, ret.coll, ret.id).err = "ErrDocumentNotExists"
    /\ \E c \in Range(Collections) :
           c # ret.coll /\ FindOneById(store, c, ret.id).err = "nil"

(***************************************************************************)
(* C14.  InsertOne(C, r) whose id is already the id of a stored document   *)
(* of C returns ErrDuplicateKey and no id; the existing document is not    *)
(* overwritten and the three stores stay as they were.                     *)
(***************************************************************************)
C14_IdCollision ==
    [][\A c \in Range(Collections) : \A r \in Records : \A id \in Range(Ids) :
           (getDocumentKey(c, id) \in DOMAIN store /\ InsertOne(c, r, id)) =>
               /\ ret'.err = "ErrDuplicateKey"
               /\ ret'.id = ""
               /\ UNCHANGED <<store, index, textIndex>>]_vars

\* a record was inserted under the id of a stored document that differs from it
C14_Witness ==
    /\ ret.op = "InsertOne" /\ ret.err = "ErrDuplicateKey"
    /\ \E id \in Range(Ids) :
           /\ getDocumentKey(ret.coll, id) \in DOMAIN store
           /\ store[getDocumentKey(ret.coll, id)] # DocumentMap(ret.arg, id)

(***************************************************************************)
(* C15.  InsertMany(C, [r1..rn]) inserts the records in input order.  When *)
(* all succeed it returns n ids and the i-th id names the i-th record.     *)
(* When InsertOne of record i fails it returns that error and no ids, no   *)
(* record after i is inserted, and records 1..i-1 remain stored and        *)
(* indexed.                                                                *)
(***************************************************************************)
\* the positions whose id is taken: by a stored document or earlier in the call
Taken(collectionName, uuids) ==
    {i \in DOMAIN uuids :
        \/ getDocumentKey(collectionName, uuids[i]) \in DOMAIN store
        \/ \E j \in 1 .. i - 1 : uuids[j] = uuids[i]}

\* after the step the record is stored under the id, and the secondary and the
\* inverted lists InsertOne writes for it name the id
StoredAndIndexed(collectionName, r, id) ==
    /\ FindOneById(store', collectionName, id).err = "nil"
    /\ EqualsRecord(FindOneById(store', collectionName, id).doc, r, id)
    /\ \A pv \in getPathValues(DocumentMap(r, id), "") : \A p \in Range(pv) :
           id \in Range(ListedIds(index', getIndexKey(collectionName, p)))
    /\ \A f \in TextFields(r) : \A t \in Range(analyze(r.val[f].v)) :
           id \in Range(ListedIds(textIndex', ftsGetIndexKey(collectionName, t)))

C15_InsertMany ==
    [][ret'.op = "InsertMany" =>
         LET c == ret'.coll
             documents == ret'.arg.documents
             uuids == ret'.arg.uuids
             taken == Taken(c, uuids)
             \* the records before the first failure
             done == IF taken = {} THEN Len(documents)
                     ELSE (CHOOSE i \in taken : \A j \in taken : i <= j) - 1
         IN  /\ taken = {} => ret'.err = "nil" /\ ret'.docs = uuids
             /\ taken # {} => ret'.err = "ErrDuplicateKey" /\ ret'.docs = <<>>
             /\ \A j \in 1 .. done : StoredAndIndexed(c, documents[j], uuids[j])
             /\ DOMAIN store' =
                    DOMAIN store \cup {getDocumentKey(c, uuids[j]) : j \in 1 .. done}
             /\ \A key \in DOMAIN store : store'[key] = store[key]]_vars

\* the second of three records failed after the first was inserted, and the id
\* drawn for the third was free
C15_Witness ==
    /\ ret.op = "InsertMany" /\ ret.err = "ErrDuplicateKey" /\ ret.docs = <<>>
    /\ Len(ret.arg.documents) = 3
    /\ ret.arg.uuids[2] = ret.arg.uuids[1] /\ ret.arg.uuids[3] # ret.arg.uuids[1]
    /\ DOMAIN store = {getDocumentKey(ret.coll, ret.arg.uuids[1])}
    /\ store[getDocumentKey(ret.coll, ret.arg.uuids[1])] =
           DocumentMap(ret.arg.documents[1], ret.arg.uuids[1])
    /\ ret.arg.documents[2] # ret.arg.documents[1]
    /\ Unlisted(index, ret.coll, ret.arg.uuids[3])

(***************************************************************************)
(* C16.  Missing path: for every document, operator and condition value    *)
(* (nil included), when the dotted path of the condition does not resolve  *)
(* in the document (a key is missing at any segment, the last included, or *)
(* a segment before the last is not a map), matchCondition returns false.  *)
(* The code does not keep this: getValueFromPath reads v[part] without the *)
(* comma-ok form, so a key missing at the last segment resolves to nil,    *)
(* and != and the comparison with nil hold.                                *)
(***************************************************************************)
RECURSIVE Resolves(_, _)
\* every part is a key of the map reached by the parts before it
Resolves(value, parts) ==
    \/ parts = <<>>
    \/ /\ value.t = "map"
       /\ parts[1] \in DOMAIN value.v
       /\ Resolves(value.v[parts[1]], Tail(parts))

C16_MissingPath ==
    (ret.op = "matchCondition" /\ ~Resolves(ret.document, Split(ret.arg.Path, "."))) =>
        ret.result = FALSE

(***************************************************************************)
(* C17.  matchQuery(document, query) is true iff every top-level group     *)
(* holds, where an AND group holds iff all its conditions hold and an OR   *)
(* group holds iff at least one of its conditions holds; the empty query   *)
(* matches every document.                                                 *)
(***************************************************************************)
\* the conditions of the group that hold for the document
Holding(document, group) ==
    {o \in DOMAIN group.Operands : matchCondition(document, group.Operands[o])}

GroupHolds(document, group) ==
    IF group.Operator = "OR" THEN Holding(document, group) # {}
    ELSE Holding(document, group) = DOMAIN group.Operands

C17_MatchQuery ==
    ret.op = "matchQuery" =>
        /\ ret.result = TRUE <=>
               {g \in DOMAIN ret.arg : ~GroupHolds(ret.document, ret.arg[g])} = {}
        /\ ret.arg = <<>> => ret.result = TRUE

\* an OR group whose second condition alone holds, before an AND group that
\* holds; every path of the query resolves in the document
C17_Witness ==
    /\ ret.op = "matchQuery" /\ ret.result = TRUE /\ Len(ret.arg) = 2
    /\ ret.arg[1].Operator = "OR"
    /\ Holding(ret.document, ret.arg[1]) = {2}
    /\ ret.arg[2].Operator = "AND"
    /\ Holding(ret.document, ret.arg[2]) # {}
    /\ \A g \in DOMAIN ret.arg : \A o \in DOMAIN ret.arg[g].Operands :
           Resolves(ret.document, Split(ret.arg[g].Operands[o].Path, "."))

(***************************************************************************)
(* C18.  Ordering conditions (>, >=, <, <=): the condition holds iff the   *)
(* condition value parses as a number r, the resolved document value is a  *)
(* number, or a string that parses as a number, l, and l op r is true.     *)
(* When the resolved value is a boolean, nil, a nested document, an array  *)
(* or an unparseable string, or the condition value is not numeric, the    *)
(* condition is false.                                                     *)
(***************************************************************************)
RECURSIVE ValueAt(_, _)
\* the value a path that resolves leads to
ValueAt(value, parts) ==
    IF parts = <<>> THEN value ELSE ValueAt(value.v[parts[1]], Tail(parts))

\* the numbers whose decimal spelling is s
Spelled(s) == {n \in Parseable : ToString(n) = s}

\* the number a document value stands for in a comparison, if any
LeftNumbers(value) ==
    CASE value.t = "float64" -> {value.v}
      [] value.t = "string" -> Spelled(Flat(value.v))
      [] OTHER -> {}

Compare(operator, l, r) ==
    CASE operator = GT -> l > r
      [] operator = GTE -> l >= r
      [] operator = LT -> l < r
      [] operator = LTE -> l <= r

C18_Ordering ==
    (/\ ret.op = "matchCondition"
     /\ ret.arg.Operator \in {GT, GTE, LT, LTE}
     /\ Resolves(ret.document, Split(ret.arg.Path, "."))) =>
        LET value == ValueAt(ret.document, Split(ret.arg.Path, "."))
            ls == LeftNumbers(value)
            rs == Spelled(Sprint(ret.arg.Value))
        IN  /\ ret.result = TRUE <=>
                   \E l \in ls, r \in rs : Compare(ret.arg.Operator, l, r)
            /\ (\/ value.t \in {"bool", "nil", "map", "array"}
                 \/ (value.t = "string" /\ ls = {})
                 \/ rs = {}) => ret.result = FALSE

\* the stored string "30" is at least the condition's string "30"
C18_Witness ==
    /\ ret.op = "matchCondition" /\ ret.arg.Operator = GTE /\ ret.result = TRUE
    /\ Resolves(ret.document, Split(ret.arg.Path, "."))
    /\ ValueAt(ret.document, Split(ret.arg.Path, ".")) = StrV(<<"30">>)
    /\ ret.arg.Value = StrV(<<"30">>)

(***************************************************************************)
(* C19.  Stringly typed equality: for a path that resolves to the value v, *)
(* p = c holds iff the rendering of v equals the rendering of c, p != c    *)
(* holds iff the renderings differ, and the secondary index key FindMany   *)
(* reads for p = c is the key InsertOne writes for a document whose leaf p *)
(* renders to the same string.  The code does not keep the last part: the  *)
(* key written for a leaf three or more levels deep lacks the first        *)
(* segments of its path (see C3), while the key read has the whole path.   *)
(***************************************************************************)
\* the secondary key FindMany reads for the condition
KeyRead(collectionName, condition) ==
    getIndexKey(collectionName,
                buildPathValue(Flat(condition.Path),
                               StrV(<<Sprint(condition.Value)>>)))

\* the secondary keys InsertOne writes for the document
KeysWritten(collectionName, document) ==
    UNION {{getIndexKey(collectionName, pv[i]) : i \in DOMAIN pv} :
              pv \in getPathValues(document, "")}

C19_StringlyEquality ==
    (/\ ret.op = "matchCondition"
     /\ Resolves(ret.document, Split(ret.arg.Path, "."))) =>
        LET v == ValueAt(ret.document, Split(ret.arg.Path, "."))
            same == Sprint(v) = Sprint(ret.arg.Value)
        IN  /\ ret.arg.Operator = EQ => ret.result = same
            /\ ret.arg.Operator = NE => ret.result = ~same
            /\ (ret.arg.Operator = EQ /\ same /\ v.t \notin {"map", "array"}) =>
                   \A c \in Range(Collections) :
                       KeyRead(c, ret.arg) \in KeysWritten(c, ret.document)

(***************************************************************************)
(* C20.  Search(C, text) returns the documents whose ids form the          *)
(* intersection of the inverted posting lists of all analyzed tokens of    *)
(* text that have a non-empty posting list: tokens without a list are      *)
(* skipped, for any number of tokens and also when an intermediate         *)
(* intersection is empty.  When no token has a posting list, or the text   *)
(* has only stop words, the result is empty.  The code does not keep this: *)
(* fts.Search takes an empty matchedIds for "no list seen yet", so after   *)
(* an empty intersection the next token's list replaces the result.        *)
(***************************************************************************)
\* the posting lists, as sets of ids, of the tokens of the text that have one
TokenLists(collectionName, text) ==
    {Range(ListedIds(textIndex, ftsGetIndexKey(collectionName, t))) :
        t \in {u \in Range(analyze(text)) :
                  ~NoBytes(KVGet(textIndex, ftsGetIndexKey(collectionName, u)))}}

\* the ids that are in every one of the lists; none when there is no list
InAll(lists) == {id \in UNION lists : \A list \in lists : id \in list}

C20_Search ==
    \A c \in Range(Collections), text \in Texts :
        LET found == SearchResult(store, textIndex, c, text)
        IN  /\ found.err = "nil"
            /\ {Flat(found.docs[i].v["_id"].v) : i \in DOMAIN found.docs} =
                   InAll(TokenLists(c, text))
            /\ \A i \in DOMAIN found.docs :
                   found.docs[i] = store[getDocumentKey(c, Flat(found.docs[i].v["_id"].v))]

(***************************************************************************)
(* C21.  Search exactness: Search(C, t) returns exactly the ids of the     *)
(* stored documents of C whose analyzed tokens, taken over their           *)
(* text-indexed fields, are a superset of analyze(t).  The code does not   *)
(* keep this: a token of t without posting list is skipped, so a document  *)
(* is returned although it lacks that token, and a text without tokens     *)
(* returns nothing although every document has all of its tokens.          *)
(***************************************************************************)
\* the analyzed tokens of the text-indexed fields of the struct
RecordTokens(r) == UNION {Range(analyze(r.val[f].v)) : f \in TextFields(r)}

\* the ids of the stored documents of the collection that have every token of
\* the text
Superset(collectionName, text) ==
    {key[3] : key \in {k \in DOMAIN store :
        /\ k[1] = collectionName
        /\ \E r \in Records :
               /\ store[k] = DocumentMap(r, k[3])
               /\ Range(analyze(text)) \subseteq RecordTokens(r)}}

\* the ids of the documents Search returns
SearchIds(collectionName, text) ==
    LET docs == SearchResult(store, textIndex, collectionName, text).docs
    IN  {Flat(docs[i].v["_id"].v) : i \in DOMAIN docs}

Listed(collectionName, text) ==
    SelectSeq(analyze(text),
              LAMBDA t : ~NoBytes(KVGet(textIndex, ftsGetIndexKey(collectionName, t))))

\* the ids of the stored documents of the collection that have every one of
\* the tokens
HavingAll(collectionName, tokens) ==
    {key[3] : key \in {k \in DOMAIN store :
        /\ k[1] = collectionName
        /\ \E r \in Records :
               /\ store[k] = DocumentMap(r, k[3])
               /\ Range(tokens) \subseteq RecordTokens(r)}}

SearchOrder(collectionName, text) ==
    LET docs == SearchResult(store, textIndex, collectionName, text).docs
    IN  [i \in DOMAIN docs |-> Flat(docs[i].v["_id"].v)]

\* x comes before y in the slice
Before(ids, x, y) == \E p, q \in DOMAIN ids : p < q /\ ids[p] = x /\ ids[q] = y

C22_SearchOrder ==
    \A c \in Range(Collections), text \in Texts :
        Listed(c, text) # <<>> =>
            LET first == ListedIds(textIndex, ftsGetIndexKey(c, Listed(c, text)[1]))
                found == SearchOrder(c, text)
            IN  \A i, j \in DOMAIN found :
                    (i < j /\ {found[i], found[j]} \subseteq Range(first)) =>
                        /\ Before(first, found[i], found[j])
                        /\ ~Before(first, found[j], found[i])

\* two listed tokens, and two documents found with the later id first
C22_Witness ==
    \E c \in Range(Collections) :
        /\ Len(Listed(c, TItalyPizza)) = 2
        /\ SearchOrder(c, TItalyPizza) = <<Ids[2], Ids[1]>>
        /\ ListedIds(textIndex, ftsGetIndexKey(c, Listed(c, TItalyPizza)[1])) =
               <<Ids[2], Ids[1]>>

(***************************************************************************)
(* C23.  FindMany(C, Q, Limit 0) with Q empty or nil returns exactly the   *)
(* documents stored in C: every inserted and not yet deleted document of C *)
(* once, and no document of another collection.                            *)
(***************************************************************************)
\* the primary keys of the collection
KeysOf(collectionName) == {key \in DOMAIN store : key[1] = collectionName}

C23_FindAll ==
    \A c \in Range(Collections) :
        \A documents \in FindManyDocs(store, index, c, QAll, 0) :
            /\ \A key \in KeysOf(c) : Count(documents, store[key]) = 1
            /\ Len(documents) = Cardinality(KeysOf(c))

\* the same id names a document in each collection, and each collection gives
\* its own
C23_Witness ==
    \E id \in Range(Ids) :
        /\ \A c \in Range(Collections) : KeysOf(c) = {getDocumentKey(c, id)}
        /\ store[getDocumentKey(Collections[1], id)] #
               store[getDocumentKey(Collections[2], id)]
        /\ \A c \in Range(Collections) :
               FindManyDocs(store, index, c, QAll, 0) = {<<store[getDocumentKey(c, id)]>>}

(***************************************************************************)
(* C24.  _id is never indexed: no secondary key of the form C:_id=<value>  *)
(* exists, no inverted posting list comes from the tokens of a document's  *)
(* _id value, and DeleteOneById does not tokenize the _id of the stored    *)
(* document: the inverted lists it changes are those of the tokens of the  *)
(* other top-level string fields.                                          *)
(***************************************************************************)
\* no key of the secondary store is a key of the path _id
NoIdKey(idx) ==
    \A k \in DOMAIN idx : \A c \in Range(Collections) :
        SubSeq(k, 1, Len(c) + 5) # c \o ":_id="

\* no key of the inverted store is a token of an id
NoIdToken(tidx) ==
    \A c \in Range(Collections), id \in Range(Ids) :
        \A t \in Range(analyze(<<id>>)) : ftsGetIndexKey(c, t) \notin DOMAIN tidx

\* the inverted keys of the tokens of the top-level string fields other than _id
StringFieldKeys(collectionName, document) ==
    UNION {{ftsGetIndexKey(collectionName, t) : t \in Range(analyze(document.v[f].v))} :
              f \in {g \in DOMAIN document.v \ {"_id"} : document.v[g].t = "string"}}

C24_IdNotIndexed ==
    [][/\ NoIdKey(index')
       /\ NoIdToken(textIndex')
       /\ (ret'.op = "DeleteOneById" /\ ret'.err = "nil") =>
              \A k \in DOMAIN textIndex :
                  (k \notin DOMAIN textIndex' \/ textIndex'[k] # textIndex[k]) =>
                      k \in StringFieldKeys(ret'.coll,
                                            store[getDocumentKey(ret'.coll, ret'.id)])]_vars

\* a document was deleted and left both index stores with the lists of another
C24_Witness ==
    /\ ret.op = "DeleteOneById" /\ ret.err = "nil"
    /\ Cardinality(DOMAIN store) = 1
    /\ index # Empty /\ textIndex # Empty
    /\ \A key \in DOMAIN store : "_id" \in DOMAIN store[key].v

(***************************************************************************)
(* C25.  De-indexing visits every pair: deleteDocumentFromIndex(C, id,     *)
(* doc) removes id from the posting list of every path-value pair derived  *)
(* from doc; a pair whose posting list is absent or empty counts as the    *)
(* empty list and does not stop the pairs after it, also when two pairs of *)
(* the document map to the same key.  The code does not keep this: at a    *)
(* pair whose posting list has no bytes the function returns nil.          *)
(***************************************************************************)
C25_DeindexEveryPair ==
    [][(ret'.op = "DeleteOneById" /\ ret'.err = "nil") =>
          LET document == store[getDocumentKey(ret'.coll, ret'.id)]
          IN  \A pv \in getPathValues(document, "") : \A i \in DOMAIN pv :
                  ret'.id \notin
                      Range(ListedIds(index', getIndexKey(ret'.coll, pv[i])))]_vars

(***************************************************************************)
(* C26.  Planner classification: FindMany uses the index path iff the      *)
(* query is non-empty and every top-level group has at least one =         *)
(* condition and, when the group is OR, only = conditions; in every other  *)
(* case (empty or nil query, an AND group without =, an OR group with a    *)
(* condition other than =) it scans the collection.                        *)
(***************************************************************************)
\* the operators of the conditions of the group
OperatorsOf(group) == {group.Operands[o].Operator : o \in DOMAIN group.Operands}

IndexPath(query) ==
    /\ query # <<>>
    /\ \A g \in DOMAIN query :
           /\ EQ \in OperatorsOf(query[g])
           /\ query[g].Operator = "OR" => OperatorsOf(query[g]) = {EQ}

C26_Planner ==
    ret.op = "fallbackToFullScan" =>
        /\ ret.result = ~IndexPath(ret.arg)
        /\ \A c \in Range(Collections) :
               FindManyDocs(store, index, c, ret.arg, 0) =
                   IF IndexPath(ret.arg)
                   THEN {VerifyCandidates(store, c, ret.arg, 0, ids, <<>>) :
                            ids \in SeqPerms(allMatchedIdsFromIndex(index, c, ret.arg))}
                   ELSE {ScanCollection(store, c, ret.arg, 0, IterKeys(store), <<>>)}

\* an OR group of = conditions with an AND group that has = and != : the index
\* path
C26_Witness ==
    /\ ret.op = "fallbackToFullScan" /\ ret.result = FALSE /\ Len(ret.arg) = 2
    /\ ret.arg[1].Operator = "OR" /\ Len(ret.arg[1].Operands) = 2
    /\ ret.arg[2].Operator = "AND" /\ OperatorsOf(ret.arg[2]) = {EQ, NE}

(***************************************************************************)
(* C27.  Candidate counting: on the index path an id is a candidate iff it *)
(* is in the posting list of every = condition of every AND group and in   *)
(* the posting list of at least one condition of every OR group.  An OR    *)
(* group adds 1 to the required count and at most 1 to the count of an id, *)
(* an AND group with k = conditions adds k.  The code does not keep the    *)
(* first part: the bytes of an absent posting list are split into the one  *)
(* id "", which is counted like an id of a list.                           *)
(***************************************************************************)
\* the id is in the posting list the condition reads
InPostingList(collectionName, condition, id) ==
    /\ KeyRead(collectionName, condition) \in DOMAIN index
    /\ id \in Range(ListedIds(index, KeyRead(collectionName, condition)))

\* the = conditions of the group, by position
EqualityOperands(group) ==
    {o \in DOMAIN group.Operands : group.Operands[o].Operator = EQ}

\* what the claim asks of a candidate
InEveryGroup(collectionName, query, id) ==
    \A g \in DOMAIN query :
        IF query[g].Operator = "OR"
        THEN \E o \in DOMAIN query[g].Operands :
                 InPostingList(collectionName, query[g].Operands[o], id)
        ELSE \A o \in EqualityOperands(query[g]) :
                 InPostingList(collectionName, query[g].Operands[o], id)

C27_CandidateCounting ==
    \A c \in Range(Collections), q \in Queries :
        ~fallbackToFullScan(q) =>
            /\ \A id \in CountedIds(index, c, q) \cup Range(Ids) :
                   id \in allMatchedIdsFromIndex(index, c, q) <=> InEveryGroup(c, q, id)
            /\ \A g \in DOMAIN q :
                   /\ GroupRequired(q[g]) =
                          IF q[g].Operator = "OR" THEN 1
                          ELSE Cardinality(EqualityOperands(q[g]))
                   /\ \A id \in CountedIds(index, c, q) :
                          q[g].Operator = "OR" => GroupCount(index, c, q[g], id) <= 1

(***************************************************************************)
(* C28.  No rollback on partial insert: when a key-value operation fails   *)
(* in InsertOne after the primary write, while a secondary or an inverted  *)
(* posting list is updated, InsertOne returns the error, the document is   *)
(* retrievable by FindOneById and by the full-scan queries it matches, and *)
(* the posting lists already written keep the id.                          *)
(***************************************************************************)
\* kv2 is kv with id added to some posting lists, nothing else changed
OnlyAdded(kv, kv2, id) ==
    /\ DOMAIN kv \subseteq DOMAIN kv2
    /\ \A k \in DOMAIN kv2 :
           \/ (k \in DOMAIN kv /\ kv2[k] = kv[k])
           \/ /\ id \in Range(ListedIds(kv2, k))
              /\ SelectSeq(ListedIds(kv2, k), LAMBDA e : e # id) =
                     IF k \in DOMAIN kv
                     THEN SelectSeq(ListedIds(kv, k), LAMBDA e : e # id)
                     ELSE <<>>

C28_NoRollback ==
    [][(/\ ret'.op = "InsertOne"
        /\ ret'.err = KVError
        /\ ret'.arg \in {Failed("index"), Failed("textIndex")})
       => \E id \in Range(Ids) :
              LET key == getDocumentKey(ret'.coll, id)
                  found == FindOneById(store', ret'.coll, id)
              IN  /\ ret'.id = ""
                  /\ DOMAIN store' = DOMAIN store \cup {key}
                  /\ key \notin DOMAIN store
                  /\ \A k \in DOMAIN store : store'[k] = store[k]
                  /\ found.err = "nil"
                  /\ \E r \in Records : EqualsRecord(found.doc, r, id)
                  /\ \A q \in Queries :
                         fallbackToFullScan(q) /\ matchQuery(found.doc, q) =>
                             \A documents \in FindManyDocs(store', index', ret'.coll, q, 0) :
                                 Count(documents, found.doc) = 1
                  /\ OnlyAdded(index, index', id)
                  /\ OnlyAdded(textIndex, textIndex', id)]_vars

\* an insert failed with the document written and some, not all, of its
\* posting lists
C28_Witness ==
    /\ ret.op = "InsertOne"
    /\ ret.err = KVError
    /\ \E id \in Range(Ids), r \in Records :
           LET found == FindOneById(store, ret.coll, id)
           IN  /\ found.err = "nil"
               /\ EqualsRecord(found.doc, r, id)
               /\ \E pv \in getPathValues(DocumentMap(r, id), "") :
                      /\ id \in Range(ListedIds(index, getIndexKey(ret.coll, pv[1])))
                      /\ \E i \in DOMAIN pv :
                             id \notin Range(ListedIds(index, getIndexKey(ret.coll, pv[i])))
               /\ \E documents \in FindManyDocs(store, index, ret.coll, QAll, 0) :
                      Count(documents, found.doc) = 1

(***************************************************************************)
(* C29.  Text de-indexing skips non-string fields: in DeleteOneById,       *)
(* DeleteFromIndex analyzes only the top-level fields of the stored        *)
(* document whose value is a string; a number, boolean, null, nested       *)
(* document or array is skipped without failure, so the delete completes   *)
(* and returns success.  The code does not keep it for null: it asks the   *)
(* kind of reflect.TypeOf(nil) and panics.                                 *)
(***************************************************************************)
\* the top-level fields of a stored document that hold a string, _id left out
StringFields(document) ==
    {k \in DOMAIN WithoutId(document).v : document.v[k].t = "string"}

\* the tokens of the top-level string fields taken in the order given
RECURSIVE StringTokens(_, _)
StringTokens(document, order) ==
    IF order = <<>> THEN <<>>
    ELSE analyze(document.v[order[1]].v) \o StringTokens(document, Tail(order))

C29_SkipsNonStrings ==
    [][(/\ ret'.op = "DeleteOneById"
        /\ FindOneById(store, ret'.coll, ret'.id).err = "nil")
       => LET document == FindOneById(store, ret'.coll, ret'.id).doc
          IN  /\ ret'.err = "nil"
              /\ getDocumentKey(ret'.coll, ret'.id) \notin DOMAIN store'
              /\ \E order \in SeqPerms(StringFields(document)) :
                     textIndex' = DeleteTokens(textIndex, ret'.coll, ret'.id,
                                               StringTokens(document, order))]_vars

(***************************************************************************)
(* C30.  Search only sees annotated fields: a document is in the posting   *)
(* list of a token only if the token is an analyzed token of a field of    *)
(* its record type tagged objectdb with the entry textIndex.  String       *)
(* fields without the tag, top-level or nested, add the document to no     *)
(* inverted posting list, and Search does not return it through them.      *)
(***************************************************************************)
\* the analyzed tokens of the string leaves of the record that are not those
\* of a tagged field
UntaggedTokens(r) ==
    UNION {Range(analyze(leaf[2].v)) :
               leaf \in {l \in Leaves(MapV(r.val), "") : l[2].t = "string"}}
        \ RecordTokens(r)

\* texts made of the values of untagged fields
UntaggedTexts == {<<"30">>, <<"10000">>, <<"x">>, <<"10000", " ", "30">>}

C30_AnnotatedFieldsOnly ==
    /\ \A k \in DOMAIN textIndex : \A id \in Range(ListedIds(textIndex, k)) :
           \E c \in Range(Collections), r \in Records :
               /\ getDocumentKey(c, id) \in DOMAIN store
               /\ store[getDocumentKey(c, id)] = DocumentMap(r, id)
               /\ \E t \in RecordTokens(r) : k = ftsGetIndexKey(c, t)
    /\ \A key \in DOMAIN store, r \in Records :
           store[key] = DocumentMap(r, key[3]) =>
               \A t \in UntaggedTokens(r) :
                   key[3] \notin Range(ListedIds(textIndex, ftsGetIndexKey(key[1], t)))
    /\ \A c \in Range(Collections), text \in UntaggedTexts :
           SearchResult(store, textIndex, c, text).docs = <<>>

\* an employee and a restaurant of one collection are in the lists of their
\* tagged fields, and their untagged strings have tokens of their own
C30_Witness ==
    \E c \in Range(Collections) :
        /\ FindOneById(store, c, Ids[1]).doc = DocumentMap(Emp, Ids[1])
        /\ FindOneById(store, c, Ids[2]).doc = DocumentMap(Rest, Ids[2])
        /\ Ids[1] \in Range(ListedIds(textIndex, ftsGetIndexKey(c, "jane")))
        /\ Ids[2] \in Range(ListedIds(textIndex, ftsGetIndexKey(c, "pizza")))
        /\ "30" \in UntaggedTokens(Emp)
        /\ "10000" \in UntaggedTokens(Rest)

(***************************************************************************)
(* C31.  Deleted candidate race: when another goroutine deletes document d *)
(* after FindMany has read the posting lists that name d and before it     *)
(* loads d, FindMany leaves d out of its result, returns no nil entry for  *)
(* it and no error, for every query of the index path, those with a nil =  *)
(* value included.  The code does not keep it for a nil = value: the nil   *)
(* document it gets for d goes to matchQuery, where the absent path reads  *)
(* as nil and equals the value.                                            *)
(***************************************************************************)
\* the candidates deleted while the call was between its two loops
DeletedCandidates == Range(ret.arg.deleted) \cap Range(ret.arg.ids)

C31_DeletedCandidate ==
    (ret.op = "FindMany" /\ DeletedCandidates # {}) =>
        /\ ret.err = "nil"
        /\ \A i \in DOMAIN ret.docs :
               /\ ret.docs[i] # NilDocument
               /\ Flat(ret.docs[i].v["_id"].v) \notin DeletedCandidates

(***************************************************************************)
(* C32.  No cross-operation isolation: each posting-list update is a Get   *)
(* followed by a Set with no lock.  When two InsertOne calls whose         *)
(* documents share a path-value or a token interleave these steps, a state *)
(* is reachable in which both documents are in primary and the shared      *)
(* posting list holds only one of the two ids, both calls having returned  *)
(* success; every serial execution of the two calls leaves both ids in the *)
(* list.                                                                   *)
(***************************************************************************)
BothReturned == ret.op = Interleaved /\ \A t \in 1 .. 2 : ret.arg.calls[t].pc = "done"

\* the posting lists, secondary and inverted, that the document of the id has
\* a pair or a token for
ListsOf(id) ==
    LET document == store[getDocumentKey(Collections[1], id)]
        r == CHOOSE r \in {Emp, Rest} : document = DocumentMap(r, id)
    IN  {<<"index", k>> : k \in KeysWritten(Collections[1], document)}
            \cup {<<"textIndex", ftsGetIndexKey(Collections[1], t)>> : t \in RecordTokens(r)}

\* the ids of the list
IdsOf(list) ==
    Range(ListedIds(IF list[1] = "index" THEN index ELSE textIndex, list[2]))

C32_NoIsolation ==
    BothReturned =>
        /\ \A t \in 1 .. 2 : getDocumentKey(Collections[1], Ids[t]) \in DOMAIN store
        /\ \A list \in ListsOf(Ids[1]) \cup ListsOf(Ids[2]) : IdsOf(list) # {}
        /\ ~ret.arg.overlapped =>
               \A t \in 1 .. 2 : \A list \in ListsOf(Ids[t]) : Ids[t] \in IdsOf(list)

\* both calls returned, both documents are stored, and a list both have a pair
\* or a token for holds one of the two ids
C32_Witness ==
    /\ BothReturned
    /\ \A t \in 1 .. 2 : getDocumentKey(Collections[1], Ids[t]) \in DOMAIN store
    /\ \E list \in ListsOf(Ids[1]) \cap ListsOf(Ids[2]) : Cardinality(IdsOf(list)) = 1

(***************************************************************************)
(* C33.  Write ordering keeps the indexes behind primary: InsertOne writes *)
(* the primary document before any posting list, DeleteOneById removes the *)
(* id from the posting lists before it deletes the primary document; so    *)
(* with one writer, at every point between two key-value writes and after  *)
(* a failure at any such point, every id of a secondary or inverted        *)
(* posting list of C has a document under C:id.  The code does not keep    *)
(* it: deleteDocumentFromIndex returns at the first pair without posting   *)
(* list, the lists of the pairs after it keep the id, and DeleteOneById    *)
(* goes on to delete the primary document.                                 *)
(***************************************************************************)
C33_IndexesBehindPrimary ==
    \A c \in Range(Collections), id \in Range(Ids) :
        getDocumentKey(c, id) \notin DOMAIN store =>
            Unlisted(index, c, id) /\ Unlisted(textIndex, c, id)

(***************************************************************************)
(* C34.  Frame of insert and delete: a successful InsertOne(C, r) or       *)
(* DeleteOneById(C, d) changes no primary document other than the one      *)
(* inserted or deleted, and for every other id e it keeps e in every       *)
(* secondary and inverted posting list e was in, out of every list e was   *)
(* not in, and the other ids of each list in their order.                  *)
(***************************************************************************)
\* the ids of the posting list under indexKey other than id, in their order
OtherIds(kv, indexKey, id) ==
    IF indexKey \in DOMAIN kv
    THEN SelectSeq(ListedIds(kv, indexKey), LAMBDA e : e # id)
    ELSE <<>>

\* from kv to kv2 only the id moved, and only in lists of the collection
FrameOf(kv, kv2, collectionName, id) ==
    \A k \in DOMAIN kv \cup DOMAIN kv2 :
        /\ OtherIds(kv2, k, id) = OtherIds(kv, k, id)
        /\ ~InCollection(k, collectionName) =>
               k \in DOMAIN kv \cap DOMAIN kv2 /\ kv2[k] = kv[k]

C34_Frame ==
    [][(ret'.op \in {"InsertOne", "DeleteOneById"} /\ ret'.err = "nil") =>
           /\ \A key \in (DOMAIN store \cup DOMAIN store')
                           \ {getDocumentKey(ret'.coll, ret'.id)} :
                  key \in DOMAIN store \cap DOMAIN store' /\ store'[key] = store[key]
           /\ FrameOf(index, index', ret'.coll, ret'.id)
           /\ FrameOf(textIndex, textIndex', ret'.coll, ret'.id)]_vars

\* a document was inserted into lists, secondary and inverted, that held
\* another id, and the other id is in front of it
C34_Witness ==
    /\ ret.op = "InsertOne" /\ ret.err = "nil"
    /\ \E e \in Range(Ids) \ {ret.id} :
           /\ \E k \in DOMAIN index :
                  InCollection(k, ret.coll) /\ ListedIds(index, k) = <<e, ret.id>>
           /\ \E k \in DOMAIN textIndex :
                  InCollection(k, ret.coll) /\ ListedIds(textIndex, k) = <<e, ret.id>>

(***************************************************************************)
(* C35.  Insert/delete round trip: from any quiescent state, a successful  *)
(* InsertOne(C, r) that returns d, followed at once by a successful        *)
(* DeleteOneById(C, d), leaves the primary, secondary and inverted stores  *)
(* exactly as they were before the insert.  The code does not keep it:     *)
(* deleteDocumentFromIndex returns at the first pair without posting list  *)
(* and leaves d in the lists of the pairs after it.                        *)
(***************************************************************************)
\* the three stores as one value
Database == [store |-> store, index |-> index, textIndex |-> textIndex]

\* what comes of a database db by a successful insert of the record under the
\* id and a successful delete of the id
RoundTrips(db, collectionName, r, id) ==
    UNION {{[store |-> deleted.store, index |-> deleted.index,
             textIndex |-> deleted.textIndex] :
                deleted \in {out \in DeleteOneByIdOutcomes(
                                         [store |-> inserted.store,
                                          index |-> inserted.index,
                                          textIndex |-> inserted.textIndex],
                                         collectionName, id) : out.err = "nil"}} :
              inserted \in {out \in InsertOneOutcomes(db, collectionName, r, id) :
                                out.err = "nil"}}

C35_RoundTrip ==
    \A c \in Range(Collections), r \in Records \cup {Flags}, id \in Range(Ids) :
        \A db \in RoundTrips(Database, c, r, id) : db = Database

(***************************************************************************)
(* C36.  Index-time and query-time analysis agree: AddToIndex,             *)
(* DeleteFromIndex and Search derive their tokens with the same analyze,   *)
(* so for every stored document d of C and every value s of a textIndex    *)
(* field of d for which analyze(s) is not empty, Search(C, s) returns a    *)
(* result that contains d, until d is deleted.  The code does not keep it  *)
(* for a document with a null field: DeleteOneById takes its tokens out of *)
(* the inverted lists, then panics on the null field and leaves the        *)
(* document stored.                                                        *)
(***************************************************************************)
C36_AnalysisAgrees ==
    \A key \in DOMAIN store, r \in TextRecords :
        store[key] = DocumentMap(r, key[3]) =>
            \A f \in TextFields(r) :
                analyze(r.val[f].v) # <<>> =>
                    LET found == SearchResult(store, textIndex, key[1], r.val[f].v)
                    IN  /\ found.err = "nil"
                        /\ store[key] \in Range(found.docs)

(***************************************************************************)
(* C37.  Collection non-interference: for collection names without a colon *)
(* and C different from C', no InsertOne, InsertMany or DeleteOneById on   *)
(* C' changes what FindOneById, FindMany or Search return on C; two runs   *)
(* that differ only in their calls on C' return the same for every read on *)
(* C.  Stated as three facts: in every state a read on C returns what it   *)
(* returns from the keys of C alone, and a write on C makes of the keys of *)
(* C what it makes of them alone; and every write on C' leaves the keys of *)
(* C as they are.                                                          *)
(***************************************************************************)
\* the keys of the collection in the three stores
Own(db, collectionName) ==
    [store |-> [k \in {k \in DOMAIN db.store : k[1] = collectionName} |-> db.store[k]],
     index |-> [k \in {k \in DOMAIN db.index : InCollection(k, collectionName)} |->
                   db.index[k]],
     textIndex |-> [k \in {k \in DOMAIN db.textIndex :
                               InCollection(k, collectionName)} |-> db.textIndex[k]]]

\* the reads on the collection return the same in db and db2
SameReads(db, db2, collectionName) ==
    /\ \A id \in AskedIds :
           FindOneById(db.store, collectionName, id) =
               FindOneById(db2.store, collectionName, id)
    /\ \A q \in Queries, k \in Limits :
           FindManyDocs(db.store, db.index, collectionName, q, k) =
               FindManyDocs(db2.store, db2.index, collectionName, q, k)
    /\ \A text \in Texts :
           SearchResult(db.store, db.textIndex, collectionName, text) =
               SearchResult(db2.store, db2.textIndex, collectionName, text)

\* what the outcomes of a write leave of the collection, with what they return
Left(outcomes, collectionName) ==
    {[db |-> Own(o, collectionName), err |-> o.err] : o \in outcomes}

\* the writes on the collection do to its keys in db what they do to them alone
SameWrites(db, collectionName) ==
    LET own == Own(db, collectionName)
    IN  /\ \A r \in Records, id \in Range(Ids) :
               Left(InsertOneOutcomes(db, collectionName, r, id), collectionName) =
                   Left(InsertOneOutcomes(own, collectionName, r, id), collectionName)
        /\ \A id \in Range(Ids) :
               Left(DeleteOneByIdOutcomes(db, collectionName, id), collectionName) =
                   Left(DeleteOneByIdOutcomes(own, collectionName, id), collectionName)

C37_NonInterference ==
    /\ [](\A c \in Range(Collections) :
              SameReads(Database, Own(Database, c), c) /\ SameWrites(Database, c))
    /\ [][\A c \in Range(Collections) :
              (ret'.op \in {"InsertOne", "InsertMany", "DeleteOneById"}
               /\ ret'.coll # c) =>
                  Own([store |-> store', index |-> index', textIndex |-> textIndex'],
                      c) = Own(Database, c)]_vars

\* each collection holds a document under the same id, the second put there
\* by InsertMany
C37_Witness ==
    /\ ret.op = "InsertMany" /\ ret.err = "nil"
    /\ \E c \in Range(Collections) \ {ret.coll}, id \in Range(Ids) :
           /\ FindOneById(store, c, id).err = "nil"
           /\ FindOneById(store, ret.coll, id).err = "nil"
           /\ FindOneById(store, c, id).doc # FindOneById(store, ret.coll, id).doc
           /\ SearchResult(store, textIndex, c, TItalyPizza).docs # <<>>
           /\ SearchResult(store, textIndex, ret.coll, TItalyPizza).docs = <<>>

(***************************************************************************)
(* C38  Search never reports a missing document under single-writer use:   *)
(* in every state reached by InsertOne and DeleteOneById calls made one    *)
(* after the other, every id listed in the inverted index of a collection  *)
(* has a primary document in it, so Search, for every text, loads each id  *)
(* that fts.Search matched and returns a list with the error nil.          *)
(***************************************************************************)
C38_SearchFindsAll ==
    \A c \in Range(Collections) :
        /\ \A indexKey \in DOMAIN textIndex :
               InCollection(indexKey, c) =>
                   \A id \in Range(ListedIds(textIndex, indexKey)) :
                       FindOneById(store, c, id).err = "nil"
        /\ \A text \in Texts :
               LET found == SearchResult(store, textIndex, c, text)
               IN  /\ found.err = "nil"
                   /\ Len(found.docs) = Len(ftsSearch(textIndex, c, text))

\* a delete has returned nil, its document is gone, and the search that
\* matched it before returns the other document of the collection
C38_Witness ==
    /\ ret.op = "DeleteOneById"
    /\ ret.err = "nil"
    /\ FindOneById(store, ret.coll, ret.id).err = "ErrDocumentNotExists"
    /\ \E id \in Range(Ids) \ {ret.id} :
           /\ ftsSearch(textIndex, ret.coll, TItalyPizza) = <<id>>
           /\ SearchResult(store, textIndex, ret.coll, TItalyPizza).docs =
                  <<FindOneById(store, ret.coll, id).doc>>

====
